---------------------------- MODULE Spec2Model ----------------------------
(***************************************************************************)
(* Client-side request layer of AIPdfDoc (templates/js/api.js) and the     *)
(* two managers that drive it (ChatManager, FileManager):                  *)
(*   - CacheManager        TTL cache and withCache                         *)
(*   - RequestInterceptor  registry of in-flight promises                  *)
(*   - RequestRetrier      bounded retry with exponential backoff          *)
(*   - SearchAPI.searchStream   chunked "data: " line consumer             *)
(*   - ChatManager.sendMessage  busy flag and transcript assembly          *)
(*   - FileManager.monitorFileProcessing   status poller                   *)
(* Each component has its own next-state relation and specification over   *)
(* the shared variables; the variables of the other components stay put.   *)
(***************************************************************************)
EXTENDS Integers, Sequences, FiniteSets, TLC

(***************************************************************************)
(* Bounds of the model.                                                    *)
(***************************************************************************)
MaxTime == 3
MaxTTL == 1
MaxReaders == 1
MaxCallers == 2
MaxPromises == 3
MaxExecCalls == 2
MaxLines == 2
MaxSends == 1
MaxStreamEvents == 4
MaxChecks == 4
MaxBytes == 4
MaxProgress == 3
MaxTimeout == 2
MaxClock == 4
MaxPages == 2
MaxSwitches == 2
MaxStarts == 6
MaxOpens == 3

(***************************************************************************)
(* Program constants.                                                      *)
(***************************************************************************)
defaultTTL == 300000
maxRetries == 3
delay == 1000
initialDelay == 2000
pollInterval == 3000

VARIABLES
    \* ---- CacheManager and the facade calls that go with it ----
    now,          \* Date.now(), in ms
    cache,        \* CacheManager.cache : key -> [data, expireTime] (+ history: storedAt, ttl)
    staleKeys,    \* history: keys whose entry held a file when its delete succeeded
    files,        \* the backend's files of the user
    readers,      \* withCache calls in progress: reader -> [pc, key, ttl]
    lastGet,      \* history: the last CacheManager.get and what it found
    lastRead,     \* history: the last withCache result
    removed,      \* history: keys deleted or cleared and not set since
    \* ---- RequestInterceptor and the promises it holds ----
    requestQueue, \* RequestInterceptor.requestQueue : key -> promise
    promises,     \* promise -> [state, key, reactions]; the key is that of its network call
    microQ,       \* the microtask queue: reactions of settled promises, in order
    callers,      \* caller -> [pc, key, promise, outcome] of its latest call
    joined,       \* history: caller -> callers whose call for the same key was unsettled
    orphaned,     \* history: keys that had a call in flight when cancelAll() ran
    \* ---- RequestRetrier.execute ----
    exec,         \* call -> [pc, i, lastError, tries, waits, ...] and its history
    \* ---- SearchAPI.searchStream: one response body and its reader ----
    wire,         \* text the backend has written and the reader has not read yet
    received,     \* history: the text read so far (all chunks, concatenated)
    nWritten,     \* history: number of lines the backend has written
    dispatched,   \* history: the events passed to onMessage, in order
    streamPc,     \* "reading" | "closed" (reader.read() reported done)
    aligned,      \* history: every chunk read so far ended with a newline
    \* ---- ChatManager ----
    currentSessionId, \* this.currentSessionId; 0 is null
    isStreaming,  \* this.isStreaming
    sends,        \* sendMessage invocation -> its position and its closure
    dom,          \* the children of #chat-messages, in document order
    chatStatus,   \* the text updateChatStatus last wrote
    nSessions,    \* sessions the backend has created
    nSends,       \* history: invocations that got past the checks
    nEvents,      \* history: events dispatched to the callbacks
    lastAct,      \* history: what the last handler was
    histPending,  \* the session whose getChatHistory call loadChatHistory awaits; 0 is none
    domSession,   \* history: the session renderChatMessages last rendered; 0 is none
    nSwitches,    \* history: calls of switchSession from the session list and the new-chat button
    \* ---- FileManager.monitorFileProcessing ----
    jobs,         \* file id -> the monitor of that file and its history
    autoRefreshInterval, \* this.autoRefreshInterval: the id setInterval returned; 0 is null
    intervals,    \* the interval timers that are active (set and not cleared)
    documentHidden, \* document.hidden
    onLine,       \* navigator.onLine
    nStarts,      \* history: calls of setInterval
    destroyed,    \* history: destroy() has been called
    \* ---- window.API.FileAPI.uploadFile ----
    up,           \* the one call of uploadFile: its retry loop, its XMLHttpRequest, its history
    \* ---- ApiClient.request ----
    rq,           \* the one call of request: its fetch, its timer, its clock, its history
    \* ---- db.sql: one row of files and its rows of document_contents ----
    fileRow,      \* [process_status, process_progress, content_extracted] of the file
    document_contents, \* the rows of the file: {[page_number, total_pages]}
    \* ---- FileManager.showDeleteConfirmModal ----
    modalActive,  \* #delete-confirm-modal has the class active
    listeners,    \* the openings whose handleConfirm / handleCancel are attached: {[n, fileId]}
    lastClick,    \* history: the last click on the confirm button
    nOpens        \* history: calls of showDeleteConfirmModal

cacheVars == <<now, cache, staleKeys, files, readers, lastGet, lastRead, removed>>

regVars == <<requestQueue, promises, microQ, callers, joined, orphaned>>

retryVars == <<exec>>

streamVars == <<wire, received, nWritten, dispatched, streamPc, aligned>>

sessionVars == <<histPending, domSession, nSwitches>>

chatVars == <<currentSessionId, isStreaming, sends, dom, chatStatus, nSessions, nSends,
              nEvents, lastAct, sessionVars>>

refreshVars == <<intervals, documentHidden, onLine, nStarts>>

pollVars == <<jobs, autoRefreshInterval, destroyed, refreshVars>>

uploadVars == <<up>>

requestVars == <<rq>>

dbVars == <<fileRow, document_contents>>

modalVars == <<modalActive, listeners, lastClick, nOpens>>

vars == <<cacheVars, regVars, retryVars, streamVars, chatVars, pollVars, uploadVars,
          requestVars, dbVars, modalVars>>

(***************************************************************************)
(* JavaScript values as far as the layer looks at them: a list response    *)
(* (an object, truthy even when empty), a scalar (0 is falsy) and null.    *)
(***************************************************************************)
Keys == {"k1", "k2"}
FileIds == {1, 2}
Readers == 1..MaxReaders

ListVal(S) == [kind |-> "list", files |-> S, v |-> 0]
Scalar(x) == [kind |-> "val", files |-> {}, v |-> x]
Null == [kind |-> "null", files |-> {}, v |-> 0]
Truthy(d) == d.kind = "list" \/ (d.kind = "val" /\ d.v # 0)

SetValues == {Scalar(0), Scalar(1)}
TTLs == (0..MaxTTL) \cup {defaultTTL}

NoGet == [key |-> "", at |-> 0, found |-> FALSE, storedAt |-> 0, ttl |-> 0,
          hit |-> FALSE, evicted |-> FALSE]
NoRead == [key |-> "", fromCache |-> FALSE, stale |-> FALSE, outcome |-> "none"]
IdleReader == [pc |-> "idle", key |-> "", ttl |-> 0]

(***************************************************************************)
(* CacheManager                                                            *)
(***************************************************************************)
\* set(key, data, ttl) at time t: the map after the call.
CacheManager_set(c, key, data, ttl, t) ==
    [k \in (DOMAIN c) \cup {key} |->
        IF k = key
        THEN [data |-> data, expireTime |-> t + ttl, storedAt |-> t, ttl |-> ttl]
        ELSE c[k]]

\* get(key) treats the item as expired when Date.now() > item.expireTime.
CacheManager_expired(item, t) == t > item.expireTime

\* get(key) at time t: the value returned.
CacheManager_getResult(c, key, t) ==
    IF key \notin DOMAIN c THEN Null
    ELSE IF CacheManager_expired(c[key], t) THEN Null
    ELSE c[key].data

\* get(key) at time t: the map after the call.
CacheManager_getCache(c, key, t) ==
    IF key \in DOMAIN c /\ CacheManager_expired(c[key], t)
    THEN [k \in (DOMAIN c) \ {key} |-> c[k]]
    ELSE c

\* A delete that empties the map (the mutant of delete).
CacheManager_delete_all(c, key) == << >>

\* delete(key): the map after the call.
CacheManager_delete(c, key) == [k \in (DOMAIN c) \ {key} |-> c[k]]

\* clear(): the map after the call.
CacheManager_clear(c) == << >>

Tick ==
    /\ now < MaxTime
    /\ now' = now + 1
    /\ UNCHANGED <<cache, staleKeys, files, readers, lastGet, lastRead>>
    /\ UNCHANGED removed
    /\ UNCHANGED <<regVars, retryVars, streamVars, chatVars, pollVars, uploadVars, requestVars, dbVars, modalVars>>

CacheSet(key, data, ttl) ==
    /\ cache' = CacheManager_set(cache, key, data, ttl, now)
    /\ staleKeys' = staleKeys \ {key}
    /\ UNCHANGED <<now, files, readers, lastGet, lastRead>>
    /\ removed' = removed \ {key}
    /\ UNCHANGED <<regVars, retryVars, streamVars, chatVars, pollVars, uploadVars, requestVars, dbVars, modalVars>>

CacheGet(key) ==
    /\ cache' = CacheManager_getCache(cache, key, now)
    /\ staleKeys' = staleKeys \cap DOMAIN cache'
    /\ lastGet' = [key |-> key, at |-> now, found |-> key \in DOMAIN cache,
                   storedAt |-> IF key \in DOMAIN cache THEN cache[key].storedAt ELSE 0,
                   ttl |-> IF key \in DOMAIN cache THEN cache[key].ttl ELSE 0,
                   hit |-> /\ key \in DOMAIN cache
                           /\ CacheManager_getResult(cache, key, now) = cache[key].data,
                   evicted |-> key \in DOMAIN cache /\ key \notin DOMAIN cache']
    /\ UNCHANGED <<now, files, readers, lastRead>>
    /\ UNCHANGED removed
    /\ UNCHANGED <<regVars, retryVars, streamVars, chatVars, pollVars, uploadVars, requestVars, dbVars, modalVars>>

CacheDelete(key) ==
    /\ cache' = CacheManager_delete(cache, key)
    /\ staleKeys' = staleKeys \cap DOMAIN cache'
    /\ UNCHANGED <<now, files, readers, lastGet, lastRead>>
    /\ removed' = removed \cup {key}
    /\ UNCHANGED <<regVars, retryVars, streamVars, chatVars, pollVars, uploadVars, requestVars, dbVars, modalVars>>

CacheClear ==
    /\ cache' = CacheManager_clear(cache)
    /\ staleKeys' = {}
    /\ UNCHANGED <<now, files, readers, lastGet, lastRead>>
    /\ removed' = Keys
    /\ UNCHANGED <<regVars, retryVars, streamVars, chatVars, pollVars, uploadVars, requestVars, dbVars, modalVars>>

(***************************************************************************)
(* withCache(key, requestFn, ttl) with requestFn = () => getFileList():    *)
(* the lookup, and then, after the await, the store.                       *)
(***************************************************************************)
WithCacheLookup(r, key, ttl) ==
    /\ readers[r].pc = "idle"
    /\ LET cached == CacheManager_getResult(cache, key, now)
           c1 == CacheManager_getCache(cache, key, now)
       IN /\ cache' = c1
          /\ staleKeys' = staleKeys \cap DOMAIN c1
          /\ IF Truthy(cached)
             THEN /\ lastRead' = [key |-> key, fromCache |-> TRUE, stale |-> key \in staleKeys,
                                   outcome |-> "value"]
                  /\ UNCHANGED readers
             ELSE /\ readers' = [readers EXCEPT ![r] = [pc |-> "await", key |-> key, ttl |-> ttl]]
                  /\ UNCHANGED lastRead
    /\ UNCHANGED <<now, files, lastGet>>
    /\ UNCHANGED removed
    /\ UNCHANGED <<regVars, retryVars, streamVars, chatVars, pollVars, uploadVars, requestVars, dbVars, modalVars>>

\* requestFn fulfils with the backend's list: set(key, data, ttl), return data.
WithCacheFulfil(r) ==
    /\ readers[r].pc = "await"
    /\ cache' = CacheManager_set(cache, readers[r].key, ListVal(files), readers[r].ttl, now)
    /\ staleKeys' = staleKeys \ {readers[r].key}
    /\ lastRead' = [key |-> readers[r].key, fromCache |-> FALSE, stale |-> FALSE,
                    outcome |-> "value"]
    /\ readers' = [readers EXCEPT ![r] = IdleReader]
    /\ UNCHANGED <<now, files, lastGet>>
    /\ removed' = removed \ {readers[r].key}
    /\ UNCHANGED <<regVars, retryVars, streamVars, chatVars, pollVars, uploadVars, requestVars, dbVars, modalVars>>

\* A withCache that stores an entry when requestFn rejects (the mutant of the
\* rejection).
CacheManager_withCache_rejected_stored(c, key, ttl, t) == CacheManager_set(c, key, Null, ttl, t)

\* await requestFn() throws: set(key, data, ttl) is not reached; the map after it.
CacheManager_withCache_rejected(c, key, ttl, t) == c

\* requestFn rejects: the rejection leaves withCache, nothing is stored.
WithCacheReject(r) ==
    /\ readers[r].pc = "await"
    /\ readers' = [readers EXCEPT ![r] = IdleReader]
    /\ cache' = CacheManager_withCache_rejected(cache, readers[r].key, readers[r].ttl, now)
    /\ lastRead' = [key |-> readers[r].key, fromCache |-> FALSE, stale |-> FALSE,
                    outcome |-> "rejected"]
    /\ UNCHANGED <<now, staleKeys, files, lastGet>>
    /\ UNCHANGED removed
    /\ UNCHANGED <<regVars, retryVars, streamVars, chatVars, pollVars, uploadVars, requestVars, dbVars, modalVars>>

(***************************************************************************)
(* FileAPI.deleteFile(fileId) and batchDeleteFiles(fileIds) that the       *)
(* backend answers with success: apiClient.delete / apiClient.post and     *)
(* nothing else.  FileAPI_deleteCache is the cache after the call.         *)
(***************************************************************************)
FileAPI_deleteCache(c, ids) == c

FileAPI_deleteFile(ids) ==
    /\ ids # {}
    /\ ids \subseteq files
    /\ files' = files \ ids
    /\ cache' = FileAPI_deleteCache(cache, ids)
    /\ staleKeys' = (staleKeys \cap DOMAIN cache') \cup
                      {k \in DOMAIN cache' : cache'[k].data.files \cap ids # {}}
    /\ UNCHANGED <<now, readers, lastGet, lastRead>>
    /\ UNCHANGED removed
    /\ UNCHANGED <<regVars, retryVars, streamVars, chatVars, pollVars, uploadVars, requestVars, dbVars, modalVars>>

CacheInit ==
    /\ now = 0
    /\ cache = << >>
    /\ staleKeys = {}
    /\ files = FileIds
    /\ readers = [r \in Readers |-> IdleReader]
    /\ lastGet = NoGet
    /\ lastRead = NoRead
    /\ removed = {}

\* The cache used directly.
CacheNext ==
    \/ Tick
    \/ \E k \in Keys, d \in SetValues, ttl \in TTLs : CacheSet(k, d, ttl)
    \/ \E k \in Keys : CacheGet(k)
    \/ \E k \in Keys : CacheDelete(k)
    \/ CacheClear

\* withCache on a cache that is also written with set(key, data, ttl): the
\* stored data is whatever the caller of set passed.
WithCacheNext ==
    \/ Tick
    \/ \E k \in Keys, d \in SetValues, ttl \in TTLs : CacheSet(k, d, ttl)
    \/ \E r \in Readers, k \in Keys, ttl \in TTLs : WithCacheLookup(r, k, ttl)
    \/ \E r \in Readers : WithCacheFulfil(r)
    \/ \E r \in Readers : WithCacheReject(r)

\* The cache in front of the file list, and the facade's deletes.
FacadeNext ==
    \/ Tick
    \/ \E r \in Readers, k \in Keys, ttl \in TTLs : WithCacheLookup(r, k, ttl)
    \/ \E r \in Readers : WithCacheFulfil(r)
    \/ \E r \in Readers : WithCacheReject(r)
    \/ \E k \in Keys : CacheDelete(k)
    \/ \E ids \in SUBSET FileIds : FileAPI_deleteFile(ids)

(***************************************************************************)
(* RequestInterceptor.  A promise is a number; 0 is null.                  *)
(***************************************************************************)
Callers == 1..MaxCallers
Promises == 1..MaxPromises
NoPromise == 0
\* seen is history: what cancelDuplicate(key) would have returned when the
\* caller's continuation ran.
IdleCaller == [pc |-> "idle", key |-> "", promise |-> NoPromise, outcome |-> "none",
               seen |-> NoPromise]

\* addRequest(key, promise): requestQueue.set(key, promise).
RequestInterceptor_addRequest(q, key, p) ==
    [k \in (DOMAIN q) \cup {key} |-> IF k = key THEN p ELSE q[k]]

\* A finally callback that leaves the entry (the mutant of the finally callback).
RequestInterceptor_onFinally_keep(q, key) == q

\* The finally callback addRequest installs: requestQueue.delete(key).
RequestInterceptor_onFinally(q, key) == [k \in (DOMAIN q) \ {key} |-> q[k]]

\* A registry that is never looked up (the mutant of cancelDuplicate).
RequestInterceptor_cancelDuplicate_blind(q, key) == NoPromise

\* cancelDuplicate(key): the registered promise, or null.
RequestInterceptor_cancelDuplicate(q, key) ==
    IF key \in DOMAIN q THEN q[key] ELSE NoPromise

\* cancelAll(): requestQueue.clear().
RequestInterceptor_cancelAll(q) == << >>

Pending(p) == p \in DOMAIN promises /\ promises[p].state = "pending"
FreshPromise == Cardinality(DOMAIN promises) + 1

\* One call through the wrapper, in one task:
\*   p = cancelDuplicate(k) || addRequest(k, startNetworkCall(k));  await p
DedupCall(c, key) ==
    /\ microQ = << >>
    /\ callers[c].pc # "waiting"
    /\ LET found == RequestInterceptor_cancelDuplicate(requestQueue, key)
           p == IF found # NoPromise THEN found ELSE FreshPromise
       IN /\ p \in Promises
          /\ IF found # NoPromise
             THEN /\ requestQueue' = requestQueue
                  /\ promises' = [promises EXCEPT ![p].reactions =
                                    Append(@, [kind |-> "caller", caller |-> c, key |-> key])]
             ELSE /\ requestQueue' = RequestInterceptor_addRequest(requestQueue, key, p)
                  /\ promises' = [q \in (DOMAIN promises) \cup {p} |->
                        IF q = p
                        THEN [state |-> "pending", key |-> key,
                              reactions |-> << [kind |-> "finally", caller |-> 0, key |-> key],
                                               [kind |-> "caller", caller |-> c, key |-> key] >>]
                        ELSE promises[q]]
          /\ callers' = [callers EXCEPT ![c] =
                [pc |-> "waiting", key |-> key, promise |-> p, outcome |-> "none",
                 seen |-> NoPromise]]
          /\ joined' = [d \in Callers |->
                IF d = c
                THEN {e \in Callers \ {c} :
                        /\ callers[e].pc = "waiting"
                        /\ callers[e].key = key
                        /\ Pending(callers[e].promise)}
                ELSE joined[d] \ {c}]
    /\ UNCHANGED <<microQ, orphaned>>
    /\ UNCHANGED <<cacheVars, retryVars, streamVars, chatVars, pollVars, uploadVars, requestVars, dbVars, modalVars>>

\* The network call behind promise p ends: p settles and its reactions are queued.
Settle(p, outcome) ==
    /\ microQ = << >>
    /\ Pending(p)
    /\ promises' = [promises EXCEPT ![p].state = outcome, ![p].reactions = << >>]
    /\ microQ' = [i \in 1..Len(promises[p].reactions) |->
                    [kind |-> promises[p].reactions[i].kind,
                     caller |-> promises[p].reactions[i].caller,
                     key |-> promises[p].reactions[i].key,
                     outcome |-> outcome]]
    /\ UNCHANGED <<requestQueue, callers, joined, orphaned>>
    /\ UNCHANGED <<cacheVars, retryVars, streamVars, chatVars, pollVars, uploadVars, requestVars, dbVars, modalVars>>

\* The next microtask: the finally callback of addRequest, or a caller's continuation.
RunMicrotask ==
    /\ microQ # << >>
    /\ LET r == Head(microQ)
       IN IF r.kind = "finally"
          THEN /\ requestQueue' = RequestInterceptor_onFinally(requestQueue, r.key)
               /\ UNCHANGED callers
          ELSE /\ callers' = [callers EXCEPT
                     ![r.caller].pc = "settled",
                     ![r.caller].outcome = r.outcome,
                     ![r.caller].seen = RequestInterceptor_cancelDuplicate(requestQueue, r.key)]
               /\ UNCHANGED requestQueue
    /\ microQ' = Tail(microQ)
    /\ UNCHANGED <<promises, joined, orphaned>>
    /\ UNCHANGED <<cacheVars, retryVars, streamVars, chatVars, pollVars, uploadVars, requestVars, dbVars, modalVars>>

CancelAll ==
    /\ microQ = << >>
    /\ requestQueue' = RequestInterceptor_cancelAll(requestQueue)
    /\ orphaned' = orphaned \cup {promises[p].key : p \in {q \in DOMAIN promises : Pending(q)}}
    /\ UNCHANGED <<promises, microQ, callers, joined>>
    /\ UNCHANGED <<cacheVars, retryVars, streamVars, chatVars, pollVars, uploadVars, requestVars, dbVars, modalVars>>

\* addRequest(key, promise) called by itself, with a call just started: the
\* entry of key is set whatever it held, and the finally callback is installed.
AddRequest(key) ==
    /\ microQ = << >>
    /\ LET p == FreshPromise
       IN /\ p \in Promises
          /\ requestQueue' = RequestInterceptor_addRequest(requestQueue, key, p)
          /\ promises' = [q \in (DOMAIN promises) \cup {p} |->
                IF q = p
                THEN [state |-> "pending", key |-> key,
                      reactions |-> << [kind |-> "finally", caller |-> 0, key |-> key] >>]
                ELSE promises[q]]
    /\ UNCHANGED <<microQ, callers, joined, orphaned>>
    /\ UNCHANGED <<cacheVars, retryVars, streamVars, chatVars, pollVars, uploadVars, requestVars, dbVars, modalVars>>

RegInit ==
    /\ requestQueue = << >>
    /\ promises = << >>
    /\ microQ = << >>
    /\ callers = [c \in Callers |-> IdleCaller]
    /\ joined = [c \in Callers |-> {}]
    /\ orphaned = {}

RegNext ==
    \/ \E c \in Callers, k \in Keys : DedupCall(c, k)
    \/ \E p \in Promises, o \in {"fulfilled", "rejected"} : Settle(p, o)
    \/ RunMicrotask
    \/ CancelAll

\* The registry as its three methods allow it to be used: the calls through the
\* wrapper, and addRequest by itself.
InterceptorNext ==
    \/ RegNext
    \/ \E k \in Keys : AddRequest(k)

(***************************************************************************)
(* Error messages.  A string is the sequence of its characters; a CJK      *)
(* character is written by its code point.                                 *)
(***************************************************************************)
Includes(s, pat) ==
    \E i \in 1..(Len(s) - Len(pat) + 1) : SubSeq(s, i, i + Len(pat) - 1) = pat

Digit(d) == <<"0", "1", "2", "3", "4", "5", "6", "7", "8", "9">>[d + 1]

RECURSIVE NumberToString(_)
\* `${n}` of a natural number.
NumberToString(n) == IF n < 10 THEN <<Digit(n)>> ELSE NumberToString(n \div 10) \o <<Digit(n % 10)>>

MsgRequestTimeout == <<"U8BF7", "U6C42", "U8D85", "U65F6">>
MsgNetworkError == <<"U7F51", "U7EDC", "U9519", "U8BEF">>
MsgParseFailed == <<"U54CD", "U5E94", "U89E3", "U6790", "U5931", "U8D25">>
PatNetwork == <<"U7F51", "U7EDC">>
PatTimeout == <<"t", "i", "m", "e", "o", "u", "t">>

\* response.statusText of the statuses the model uses.
StatusText(status) ==
    CASE status = 400 -> <<"B", "a", "d", " ", "R", "e", "q", "u", "e", "s", "t">>
      [] status = 404 -> <<"N", "o", "t", " ", "F", "o", "u", "n", "d">>
      [] status = 500 -> <<"I", "n", "t", "e", "r", "n", "a", "l", " ", "S", "e", "r", "v", "e", "r", " ", "E", "r", "r", "o", "r">>
      [] status = 502 -> <<"B", "a", "d", " ", "G", "a", "t", "e", "w", "a", "y">>
      [] status = 503 -> <<"S", "e", "r", "v", "i", "c", "e", " ", "U", "n", "a", "v", "a", "i", "l", "a", "b", "l", "e">>
      [] status = 504 -> <<"G", "a", "t", "e", "w", "a", "y", " ", "T", "i", "m", "e", "o", "u", "t">>
      [] OTHER -> << >>

\* What fetch() rejects with when no connection is made: a TypeError whose
\* message is the browser's.
FetchMessages == {<<"F", "a", "i", "l", "e", "d", " ", "t", "o", " ", "f", "e", "t", "c", "h">>, <<"L", "o", "a", "d", " ", "f", "a", "i", "l", "e", "d">>}

\* The "message" field of an error body: none, or a text of the backend.
NoMessage == << >>
BodyMessages == {NoMessage, <<"U670D", "U52A1", "U7E41", "U5FD9">>, <<"U8D85", "U8FC7">> \o <<"5", "0", "0", "M", "B">>}
Statuses == {404, 500, 502, 503, 504}

HttpError(via, status, body) ==
    [kind |-> "http", via |-> via, status |-> status, body |-> body, text |-> << >>]
FetchError(text) ==
    [kind |-> "fetch", via |-> "request", status |-> 0, body |-> NoMessage, text |-> text]
LocalError(kind, via) ==
    [kind |-> kind, via |-> via, status |-> 0, body |-> NoMessage, text |-> << >>]
NoError == LocalError("none", "")

\* The errors a request function of FileAPI / SearchAPI can throw.
Errors ==
    {HttpError("request", st, b) : st \in Statuses, b \in BodyMessages}
      \cup {HttpError("upload", st, b) : st \in {500}, b \in BodyMessages}
      \cup {FetchError(t) : t \in FetchMessages}
      \cup {LocalError("timeout", "request"), LocalError("timeout", "upload"),
            LocalError("network", "upload"), LocalError("parse", "upload")}

\* error.message, as ApiClient.request and ApiClient.upload build it.
ErrorMessage(e) ==
    CASE e.kind = "http" /\ e.body # NoMessage -> e.body
      [] e.kind = "http" /\ e.body = NoMessage /\ e.via = "request" ->
            <<"H", "T", "T", "P", " ">> \o NumberToString(e.status) \o <<":", " ">>
               \o StatusText(e.status)
      [] e.kind = "http" /\ e.body = NoMessage /\ e.via = "upload" ->
            <<"H", "T", "T", "P", " ">> \o NumberToString(e.status)
      [] e.kind = "fetch" -> e.text
      [] e.kind = "timeout" -> MsgRequestTimeout
      [] e.kind = "network" -> MsgNetworkError
      [] e.kind = "parse" -> MsgParseFailed
      [] OTHER -> << >>

(***************************************************************************)
(* RequestRetrier                                                          *)
(***************************************************************************)
\* shouldRetry(error)
RequestRetrier_shouldRetry(e) ==
    \/ Includes(ErrorMessage(e), PatNetwork)
    \/ Includes(ErrorMessage(e), PatTimeout)
    \/ Includes(ErrorMessage(e), <<"5", "0", "0">>)
    \/ Includes(ErrorMessage(e), <<"5", "0", "2">>)
    \/ Includes(ErrorMessage(e), <<"5", "0", "3">>)
    \/ Includes(ErrorMessage(e), <<"5", "0", "4">>)

\* this.delay * Math.pow(2, i)
RequestRetrier_backoff(i) == delay * (2 ^ i)

ExecCalls == 1..MaxExecCalls
IdleExec == [pc |-> "idle", i |-> 0, lastError |-> NoError, tries |-> 0,
             waits |-> << >>, only503 |-> TRUE, lastTry |-> NoError, thrown |-> NoError,
             inFlight |-> 0, retryableFailures |-> 0, tryValue |-> 0, value |-> 0]

\* What a try can fulfil with.
TryValues == {1, 2}

\* An execute that starts the next try without waiting (a mutant of the catch block).
RequestRetrier_next_eager(i, retryable) ==
    IF i = maxRetries THEN "thrown" ELSE IF retryable THEN "trying" ELSE "thrown"

\* An execute that retries whatever the error (a mutant of the catch block).
RequestRetrier_next_always(i, retryable) ==
    IF i = maxRetries THEN "thrown" ELSE "waiting"

\* The catch block of execute in turn i: break and throw, or wait.
RequestRetrier_next(i, retryable) ==
    IF i = maxRetries THEN "thrown" ELSE IF retryable THEN "waiting" ELSE "thrown"

\* An execute that wraps what it throws (the mutant of the throw).
RequestRetrier_throw_wrapped(lastError) == LocalError("exhausted", lastError.via)

\* throw lastError
RequestRetrier_throw(lastError) == lastError

Is503(e) == e.kind = "http" /\ e.via = "request" /\ e.status = 503

\* execute(requestFn): i = 0 and the first try.
ExecuteStart(x) ==
    /\ exec[x].pc \in {"idle", "returned", "thrown"}
    /\ exec' = [exec EXCEPT ![x] = [IdleExec EXCEPT !.pc = "trying", !.tries = 1,
                                                    !.inFlight = 1]]
    /\ UNCHANGED <<cacheVars, regVars, streamVars, chatVars, pollVars, uploadVars, requestVars, dbVars, modalVars>>

\* The try fulfils: execute returns its value.
TryFulfils(x) ==
    /\ exec[x].pc = "trying"
    /\ \E val \in TryValues :
          exec' = [exec EXCEPT ![x].pc = "returned", ![x].inFlight = @ - 1,
                               ![x].tryValue = val, ![x].value = val]
    /\ UNCHANGED <<cacheVars, regVars, streamVars, chatVars, pollVars, uploadVars, requestVars, dbVars, modalVars>>

\* The try rejects with e: the catch block.
TryRejects(x, e) ==
    /\ exec[x].pc = "trying"
    /\ exec' = [exec EXCEPT
          ![x].lastError = e,
          ![x].lastTry = e,
          ![x].thrown = IF exec[x].i = maxRetries \/ ~RequestRetrier_shouldRetry(e)
                        THEN RequestRetrier_throw(e)
                        ELSE @,
          ![x].only503 = @ /\ Is503(e),
          ![x].pc = RequestRetrier_next(exec[x].i, RequestRetrier_shouldRetry(e)),
          ![x].inFlight = @ - 1,
          ![x].retryableFailures = IF RequestRetrier_shouldRetry(e) THEN @ + 1 ELSE @,
          ![x].waits = IF exec[x].i # maxRetries /\ RequestRetrier_shouldRetry(e)
                       THEN Append(@, RequestRetrier_backoff(exec[x].i))
                       ELSE @]
    /\ UNCHANGED <<cacheVars, regVars, streamVars, chatVars, pollVars, uploadVars, requestVars, dbVars, modalVars>>

\* The wait is over: i++ and the next try.
WaitElapsed(x) ==
    /\ exec[x].pc = "waiting"
    /\ exec' = [exec EXCEPT ![x].pc = "trying", ![x].i = @ + 1, ![x].tries = @ + 1,
                            ![x].inFlight = @ + 1]
    /\ UNCHANGED <<cacheVars, regVars, streamVars, chatVars, pollVars, uploadVars, requestVars, dbVars, modalVars>>

RetryInit == exec = [x \in ExecCalls |-> IdleExec]

RetryNext ==
    \/ \E x \in ExecCalls : ExecuteStart(x)
    \/ \E x \in ExecCalls : TryFulfils(x)
    \/ \E x \in ExecCalls, e \in Errors : TryRejects(x, e)
    \/ \E x \in ExecCalls : WaitElapsed(x)

(***************************************************************************)
(* The stream's wire format.  A line is "data: " and a JSON object; the    *)
(* JSON text of an event is written { t arg } with t one character for     *)
(* the type and arg the characters of its content or message.              *)
(***************************************************************************)
NL == "\n"
DataPrefix == <<"d", "a", "t", "a", ":", " ">>

Event(type, arg) == [type |-> type, arg |-> arg]
TypeChar(type) ==
    CASE type = "start" -> "s"
      [] type = "progress" -> "p"
      [] type = "content" -> "c"
      [] type = "sources" -> "r"
      [] type = "done" -> "d"
      [] type = "error" -> "e"
TypeOfChar(ch) ==
    CASE ch = "s" -> "start"
      [] ch = "p" -> "progress"
      [] ch = "c" -> "content"
      [] ch = "r" -> "sources"
      [] ch = "d" -> "done"
      [] ch = "e" -> "error"
      [] OTHER -> "unknown"

\* JSON.stringify(event), as the backend writes it.
JsonStringify(ev) == <<"{", TypeChar(ev.type)>> \o ev.arg \o <<"}">>

\* JSON.parse(text) succeeds.
JsonParses(text) ==
    /\ Len(text) >= 3
    /\ text[1] = "{"
    /\ text[Len(text)] = "}"
    /\ TypeOfChar(text[2]) # "unknown"
    /\ \A i \in 2..(Len(text) - 1) : text[i] \notin {"{", "}"}

\* JSON.parse(text), when it succeeds.
JsonParse(text) == Event(TypeOfChar(text[2]), SubSeq(text, 3, Len(text) - 1))

DataLine(ev) == DataPrefix \o JsonStringify(ev)

RECURSIVE Split(_)
\* text.split('\n')
Split(text) ==
    IF \A i \in 1..Len(text) : text[i] # NL
    THEN <<text>>
    ELSE LET i == CHOOSE j \in 1..Len(text) :
                    text[j] = NL /\ \A k \in 1..(j - 1) : text[k] # NL
         IN <<SubSeq(text, 1, i - 1)>> \o Split(SubSeq(text, i + 1, Len(text)))

\* line.startsWith('data: ')
StartsWithData(line) ==
    Len(line) >= Len(DataPrefix) /\ SubSeq(line, 1, Len(DataPrefix)) = DataPrefix

RECURSIVE DispatchLines(_)
\* The for loop over the lines: the events passed to onMessage.
DispatchLines(lines) ==
    IF lines = << >> THEN << >>
    ELSE LET line == Head(lines)
             payload == SubSeq(line, Len(DataPrefix) + 1, Len(line))
         IN (IF StartsWithData(line) /\ JsonParses(payload)
             THEN <<JsonParse(payload)>>
             ELSE << >>) \o DispatchLines(Tail(lines))

\* A read loop that a data line with bad JSON ends: nothing of the chunk after
\* that line is dispatched (the mutant of the turn).
SearchAPI_onChunk_fatal(chunk) ==
    LET lines == Split(chunk)
        bad == {i \in 1..Len(lines) :
                  /\ StartsWithData(lines[i])
                  /\ ~JsonParses(SubSeq(lines[i], Len(DataPrefix) + 1, Len(lines[i])))}
    IN IF bad = {} THEN DispatchLines(lines)
       ELSE DispatchLines(SubSeq(lines, 1, (CHOOSE i \in bad : \A j \in bad : i <= j) - 1))

\* One turn of the read loop on a chunk: decode, split, dispatch.
SearchAPI_onChunk(chunk) == DispatchLines(Split(chunk))

\* The lines the backend writes in this model: events, an empty line, a data
\* line whose JSON is cut short, and a line that is not a data line.
StreamEvents == {Event("start", << >>), Event("content", <<"A">>), Event("done", << >>)}
ServerLines ==
    {DataLine(ev) : ev \in StreamEvents}
       \cup {<< >>, DataPrefix \o <<"{", "c">>, <<"i", "d", ":", "1">>}

\* The backend writes one more line to the response body.
ServerWrite(line) ==
    /\ streamPc = "reading"
    /\ nWritten < MaxLines
    /\ nWritten' = nWritten + 1
    /\ wire' = wire \o line \o <<NL>>
    /\ UNCHANGED <<received, dispatched, streamPc, aligned>>
    /\ UNCHANGED <<cacheVars, regVars, retryVars, chatVars, pollVars, uploadVars, requestVars, dbVars, modalVars>>

\* reader.read() yields the next n characters as one chunk.
ReadChunk(n) ==
    /\ streamPc = "reading"
    /\ n \in 1..Len(wire)
    /\ dispatched' = dispatched \o SearchAPI_onChunk(SubSeq(wire, 1, n))
    /\ received' = received \o SubSeq(wire, 1, n)
    /\ wire' = SubSeq(wire, n + 1, Len(wire))
    /\ aligned' = (aligned /\ wire[n] = NL)
    /\ UNCHANGED <<nWritten, streamPc>>
    /\ UNCHANGED <<cacheVars, regVars, retryVars, chatVars, pollVars, uploadVars, requestVars, dbVars, modalVars>>

\* The body ends: reader.read() reports done, the loop breaks.
ReadDone ==
    /\ streamPc = "reading"
    /\ wire = << >>
    /\ streamPc' = "closed"
    /\ UNCHANGED <<wire, received, nWritten, dispatched, aligned>>
    /\ UNCHANGED <<cacheVars, regVars, retryVars, chatVars, pollVars, uploadVars, requestVars, dbVars, modalVars>>

StreamInit ==
    /\ wire = << >>
    /\ received = << >>
    /\ nWritten = 0
    /\ dispatched = << >>
    /\ streamPc = "reading"
    /\ aligned = TRUE

StreamNext ==
    \/ \E line \in ServerLines : ServerWrite(line)
    \/ \E n \in 1..(MaxLines * 12) : ReadChunk(n)
    \/ ReadDone

(***************************************************************************)
(* ChatManager.sendMessage.  An invocation is one run of the async method; *)
(* its closure holds query, assistantMessage and sources.  The events a    *)
(* chunk carries reach the callback one after the other with nothing in    *)
(* between, so one action per event reaches the same states as one per     *)
(* chunk.                                                                  *)
(***************************************************************************)
Invocations == {1, 2}
Fragments == {<<"A">>, <<"B">>}
NoSources == << >>
SomeSources == <<"doc">>
OtherSources == <<"doc", "doc2">>
ChatEvents ==
    {Event("start", << >>), Event("progress", <<"p">>), Event("sources", SomeSources),
     Event("sources", OtherSources),
     Event("done", << >>), Event("error", <<"m">>)}
      \cup {Event("content", f) : f \in Fragments}

\* pc, query, assistantMessage and sources are the invocation's; the rest is
\* history: the fragments received, the value last passed to
\* updateStreamingMessage, the value passed to finalizeStreamingMessage and the
\* number of fragments received before it, whether start was seen, whether
\* done or error was, whether error was, and whether start was the last of the
\* start and content events; firstSources and lastSources, the values of the
\* first and of the last sources event.
NotFinalized == <<"-">>
IdleSend == [pc |-> "idle", query |-> << >>, assistantMessage |-> << >>, sources |-> NoSources,
             frags |-> << >>, shown |-> << >>, finalized |-> NotFinalized, finalFrags |-> 0,
             started |-> FALSE, terminal |-> FALSE, errored |-> FALSE, fresh |-> FALSE,
             firstSources |-> NoSources, lastSources |-> NoSources,
             session |-> 0, retries |-> 0, tryStart |-> 0, finalStart |-> 0]

Element(cls, id, text, sources) == [cls |-> cls, id |-> id, text |-> text, sources |-> sources]

\* Utils.DOM.$('#id'): the position of the first element with that id, or 0.
FirstWithId(d, id) ==
    IF \E i \in 1..Len(d) : d[i].id = id
    THEN CHOOSE i \in 1..Len(d) : d[i].id = id /\ \A j \in 1..(i - 1) : d[j].id # id
    ELSE 0

RemoveAt(d, i) == SubSeq(d, 1, i - 1) \o SubSeq(d, i + 1, Len(d))

\* hideTypingIndicator()
ChatManager_hideTypingIndicator(d) ==
    IF FirstWithId(d, "typing-indicator") = 0 THEN d
    ELSE RemoveAt(d, FirstWithId(d, "typing-indicator"))

\* A callback that shows the new fragment only (the mutant of the content case).
ChatManager_onContent_delta(assistantMessage, fragment) == fragment

\* case 'content': assistantMessage += data.content
ChatManager_onContent(assistantMessage, fragment) == assistantMessage \o fragment

\* A callback that keeps the sources it got first (the mutant of the sources case).
ChatManager_onSources_first(sources, arg) == IF sources = NoSources THEN arg ELSE sources

\* case 'sources': sources = data.sources
ChatManager_onSources(sources, arg) == arg

\* updateStreamingMessage(content)
ChatManager_updateStreamingMessage(d, content) ==
    LET d1 == IF FirstWithId(d, "streaming-message") = 0
              THEN Append(d, Element("assistant", "streaming-message", << >>, NoSources))
              ELSE d
    IN [d1 EXCEPT ![FirstWithId(d1, "streaming-message")].text = content]

\* finalizeStreamingMessage(content, sources)
ChatManager_finalizeStreamingMessage(d, content, sources) ==
    IF FirstWithId(d, "streaming-message") = 0 THEN d
    ELSE [d EXCEPT ![FirstWithId(d, "streaming-message")] =
              Element("assistant", "", content, sources)]

\* showErrorMessage(errorMsg)
ChatManager_showErrorMessage(d, msg) == Append(d, Element("error", "", msg, NoSources))

\* if (this.isStreaming)
ChatManager_busy(streaming) == streaming

\* A busy branch that has already put the user's message on the page (the
\* mutant of the busy branch).
ChatManager_whenBusy_echo(d, query) == Append(d, Element("user", "", query, NoSources))

\* The busy branch, lines 703-706: a warning notification and return; the page
\* after it.
ChatManager_whenBusy(d, query) == d

\* Lines 713-736: the input is cleared, the user message and the typing
\* indicator are added, isStreaming is set and searchStream is called.
BeginStream(v, query, sid) ==
    /\ dom' = dom \o << Element("user", "", query, NoSources),
                        Element("typing", "typing-indicator", << >>, NoSources) >>
    /\ chatStatus' = "thinking"
    /\ isStreaming' = TRUE
    /\ sends' = [sends EXCEPT ![v] = [IdleSend EXCEPT !.pc = "streaming", !.query = query,
                                                     !.session = sid]]
    /\ nSends' = nSends + 1

\* sendMessage() up to its first await.
SendMessage(v, query) ==
    /\ sends[v].pc = "idle"
    /\ nSends < MaxSends \/ ChatManager_busy(isStreaming)
    /\ IF query = << >>
       THEN /\ lastAct' = "other"
            /\ UNCHANGED <<currentSessionId, isStreaming, sends, dom, chatStatus, nSessions, nSends>>
       ELSE /\ lastAct' = IF isStreaming THEN "send-while-streaming" ELSE "other"
            /\ IF ChatManager_busy(isStreaming)
               THEN /\ dom' = ChatManager_whenBusy(dom, query)
                    /\ UNCHANGED <<currentSessionId, isStreaming, sends, chatStatus,
                                   nSessions, nSends>>
               ELSE IF currentSessionId = 0
               THEN /\ sends' = [sends EXCEPT ![v] =
                                   [IdleSend EXCEPT !.pc = "creating", !.query = query]]
                    /\ UNCHANGED <<currentSessionId, isStreaming, dom, chatStatus, nSessions, nSends>>
               ELSE /\ BeginStream(v, query, currentSessionId)
                    /\ UNCHANGED <<currentSessionId, nSessions>>
    /\ UNCHANGED nEvents
    /\ UNCHANGED sessionVars
    /\ UNCHANGED <<cacheVars, regVars, retryVars, streamVars, pollVars, uploadVars, requestVars, dbVars, modalVars>>

\* createNewSession() returns to sendMessage: with a session (switchSession
\* has set currentSessionId) or, after a failure, without one.
SessionCreated(v, ok) ==
    /\ sends[v].pc = "creating"
    /\ lastAct' = "other"
    /\ UNCHANGED nEvents
    /\ LET sid == IF ok THEN nSessions + 1 ELSE currentSessionId
       IN /\ currentSessionId' = sid
          /\ nSessions' = IF ok THEN nSessions + 1 ELSE nSessions
          /\ IF sid = 0
             THEN /\ sends' = [sends EXCEPT ![v] = IdleSend]
                  /\ UNCHANGED <<isStreaming, dom, chatStatus, nSends>>
             ELSE BeginStream(v, sends[v].query, sid)
    /\ UNCHANGED sessionVars
    /\ UNCHANGED <<cacheVars, regVars, retryVars, streamVars, pollVars, uploadVars, requestVars, dbVars, modalVars>>

\* loadSessions() of init() selects a session.
SessionsLoaded ==
    /\ currentSessionId = 0
    /\ nSessions = 0
    /\ currentSessionId' = 1
    /\ nSessions' = 1
    /\ lastAct' = "other"
    /\ UNCHANGED <<isStreaming, sends, dom, chatStatus, nSends, nEvents>>
    /\ UNCHANGED sessionVars
    /\ UNCHANGED <<cacheVars, regVars, retryVars, streamVars, pollVars, uploadVars, requestVars, dbVars, modalVars>>

\* The onMessage callback of invocation v.
OnMessage(v, ev) ==
    /\ sends[v].pc = "streaming"
    /\ nEvents < MaxStreamEvents
    /\ nEvents' = nEvents + 1
    /\ lastAct' = "other"
    /\ LET c == sends[v]
           msg == ChatManager_onContent(c.assistantMessage, ev.arg)
       IN CASE ev.type = "start" ->
                 /\ chatStatus' = "started"
                 /\ sends' = [sends EXCEPT ![v].started = TRUE, ![v].fresh = TRUE]
                 /\ UNCHANGED dom
            [] ev.type = "progress" ->
                 /\ chatStatus' = "progress"
                 /\ UNCHANGED <<sends, dom>>
            [] ev.type = "content" ->
                 /\ sends' = [sends EXCEPT ![v].assistantMessage = msg,
                                           ![v].shown = msg,
                                           ![v].frags = Append(@, ev.arg),
                                           ![v].fresh = FALSE]
                 /\ dom' = ChatManager_updateStreamingMessage(dom, msg)
                 /\ UNCHANGED chatStatus
            [] ev.type = "sources" ->
                 /\ sends' = [sends EXCEPT ![v].sources = ChatManager_onSources(@, ev.arg),
                                           ![v].firstSources =
                                               IF c.lastSources = NoSources THEN ev.arg ELSE @,
                                           ![v].lastSources = ev.arg]
                 /\ UNCHANGED <<dom, chatStatus>>
            [] ev.type = "done" ->
                 /\ dom' = ChatManager_finalizeStreamingMessage(
                              ChatManager_hideTypingIndicator(dom), c.assistantMessage, c.sources)
                 /\ chatStatus' = "ready"
                 /\ sends' = [sends EXCEPT ![v].finalized = c.assistantMessage,
                                           ![v].finalFrags = Len(c.frags),
                                           ![v].finalStart = c.tryStart,
                                           ![v].terminal = TRUE]
            [] ev.type = "error" ->
                 /\ dom' = ChatManager_showErrorMessage(ChatManager_hideTypingIndicator(dom), ev.arg)
                 /\ chatStatus' = "error"
                 /\ sends' = [sends EXCEPT ![v].terminal = TRUE, ![v].errored = TRUE]
    /\ UNCHANGED <<currentSessionId, isStreaming, nSessions, nSends>>
    /\ UNCHANGED sessionVars
    /\ UNCHANGED <<cacheVars, regVars, retryVars, streamVars, pollVars, uploadVars, requestVars, dbVars, modalVars>>

\* A try of the wrapped searchStream fails with an error shouldRetry accepts,
\* before the last turn: execute waits and calls SearchAPI.searchStream again
\* with the same arguments, the callback among them.  retries is the turn of
\* execute; tryStart is history: the number of fragments the tries before
\* the current one delivered (finalStart: its value at the last done).
StreamRetried(v) ==
    /\ sends[v].pc = "streaming"
    /\ sends[v].retries < maxRetries
    /\ sends' = [sends EXCEPT ![v].retries = @ + 1,
                              ![v].tryStart = Len(sends[v].frags)]
    /\ lastAct' = "other"
    /\ UNCHANGED <<currentSessionId, isStreaming, dom, chatStatus, nSessions, nSends, nEvents>>
    /\ UNCHANGED sessionVars
    /\ UNCHANGED <<cacheVars, regVars, retryVars, streamVars, pollVars, uploadVars, requestVars, dbVars, modalVars>>

\* A finally block that leaves the flag (the mutant of the finally block).
ChatManager_finally_keep(streaming) == streaming

\* finally { this.isStreaming = false; }
ChatManager_finally(streaming) == FALSE

\* The body ends: searchStream returns, then the finally block.
StreamReturns(v) ==
    /\ sends[v].pc = "streaming"
    /\ lastAct' = "other"
    /\ isStreaming' = ChatManager_finally(isStreaming)
    /\ sends' = [sends EXCEPT ![v] = IdleSend]
    /\ UNCHANGED <<currentSessionId, dom, chatStatus, nSessions, nSends, nEvents>>
    /\ UNCHANGED sessionVars
    /\ UNCHANGED <<cacheVars, regVars, retryVars, streamVars, pollVars, uploadVars, requestVars, dbVars, modalVars>>

\* API.SearchAPI.searchStream throws: the catch and the finally block.  (It is
\* the retrier's wrapper; a try that fails and is retried calls the same
\* callback again and changes nothing here.)
StreamThrows(v) ==
    /\ sends[v].pc = "streaming"
    /\ lastAct' = "other"
    /\ dom' = ChatManager_showErrorMessage(ChatManager_hideTypingIndicator(dom), <<"x">>)
    /\ chatStatus' = "send-failed"
    /\ isStreaming' = ChatManager_finally(isStreaming)
    /\ sends' = [sends EXCEPT ![v] = IdleSend]
    /\ UNCHANGED <<currentSessionId, nSessions, nSends, nEvents>>
    /\ UNCHANGED sessionVars
    /\ UNCHANGED <<cacheVars, regVars, retryVars, streamVars, pollVars, uploadVars, requestVars, dbVars, modalVars>>

\* The new-chat button: createNewSession() has got its session from the
\* backend and calls switchSession(session_id), which sets currentSessionId and
\* calls loadChatHistory().
NewSession ==
    /\ nSwitches < MaxSwitches
    /\ histPending = 0
    /\ nSessions' = nSessions + 1
    /\ currentSessionId' = nSessions + 1
    /\ histPending' = nSessions + 1
    /\ nSwitches' = nSwitches + 1
    /\ lastAct' = "other"
    /\ UNCHANGED <<isStreaming, sends, dom, chatStatus, nSends, nEvents, domSession>>
    /\ UNCHANGED <<cacheVars, regVars, retryVars, streamVars, pollVars, uploadVars, requestVars, dbVars, modalVars>>

\* A click on a session of the list: switchSession(sessionId).
SwitchSession(sid) ==
    /\ nSwitches < MaxSwitches
    /\ histPending = 0
    /\ sid \in 1..nSessions
    /\ sid # currentSessionId
    /\ currentSessionId' = sid
    /\ histPending' = sid
    /\ nSwitches' = nSwitches + 1
    /\ lastAct' = "other"
    /\ UNCHANGED <<isStreaming, sends, dom, chatStatus, nSessions, nSends, nEvents, domSession>>
    /\ UNCHANGED <<cacheVars, regVars, retryVars, streamVars, pollVars, uploadVars, requestVars, dbVars, modalVars>>

\* renderChatMessages() of a session without messages: showWelcomeMessage()
\* sets the innerHTML of #chat-messages.
ChatManager_renderChatMessages(d) == << Element("welcome", "", << >>, NoSources) >>

\* getChatHistory answers: loadChatHistory renders the messages of the session,
\* or (the call failed) leaves the list as it is.
HistoryLoaded(ok) ==
    /\ histPending # 0
    /\ histPending' = 0
    /\ IF ok
       THEN /\ dom' = ChatManager_renderChatMessages(dom)
            /\ domSession' = histPending
            /\ chatStatus' = "ready"
       ELSE /\ chatStatus' = "load-failed"
            /\ UNCHANGED <<dom, domSession>>
    /\ lastAct' = "other"
    /\ UNCHANGED <<currentSessionId, isStreaming, sends, nSessions, nSends, nEvents, nSwitches>>
    /\ UNCHANGED <<cacheVars, regVars, retryVars, streamVars, pollVars, uploadVars, requestVars, dbVars, modalVars>>

ChatInit ==
    /\ currentSessionId = 0
    /\ isStreaming = FALSE
    /\ sends = [v \in Invocations |-> IdleSend]
    /\ dom = << >>
    /\ chatStatus = "ready"
    /\ nSessions = 0
    /\ nSends = 0
    /\ nEvents = 0
    /\ lastAct = "other"
    /\ histPending = 0
    /\ domSession = 0
    /\ nSwitches = 0

ChatNext ==
    \/ \E v \in Invocations, q \in {<< >>, <<"q">>} : SendMessage(v, q)
    \/ \E v \in Invocations, ok \in BOOLEAN : SessionCreated(v, ok)
    \/ SessionsLoaded
    \/ \E v \in Invocations, ev \in ChatEvents : OnMessage(v, ev)
    \/ \E v \in Invocations : StreamReturns(v)
    \/ \E v \in Invocations : StreamThrows(v)

\* The sessions there can be: the one loaded or created first and one for each
\* use of the new-chat button.
SessionIds == 1..(MaxSwitches + 1)

\* One invocation of sendMessage at a time, its searchStream behind the
\* retrier.
ChatRetryNext ==
    \/ \E q \in {<< >>, <<"q">>} : SendMessage(1, q)
    \/ \E ok \in BOOLEAN : SessionCreated(1, ok)
    \/ SessionsLoaded
    \/ \E ev \in ChatEvents : OnMessage(1, ev)
    \/ StreamRetried(1)
    \/ StreamReturns(1)
    \/ StreamThrows(1)

\* One invocation of sendMessage at a time, with the session list in use.
ChatSessionsNext ==
    \/ \E q \in {<< >>, <<"q">>} : SendMessage(1, q)
    \/ \E ok \in BOOLEAN : SessionCreated(1, ok)
    \/ SessionsLoaded
    \/ \E ev \in ChatEvents : OnMessage(1, ev)
    \/ StreamReturns(1)
    \/ StreamThrows(1)
    \/ NewSession
    \/ \E sid \in SessionIds : SwitchSession(sid)
    \/ \E ok \in BOOLEAN : HistoryLoaded(ok)

(***************************************************************************)
(* FileManager.monitorFileProcessing                                       *)
(***************************************************************************)
\* The files whose processing is monitored; each upload monitors its own.
Monitored == {1, 2}

\* What GET /file/status/{id} answers with a 2xx status.
StatusResponses ==
    [success : BOOLEAN, process_status : {"pending", "processing", "completed", "failed"}]

\* What a request of getFileStatus can throw.
StatusErrors == {e \in Errors : e.via = "request"}

\* No monitor yet.  pc: where the monitor of the file is; timer: the delay of
\* its pending setTimeout, 0 for none; i: the retry index of the execute() in
\* progress.  The rest is history: returned, what each request came back with;
\* nChecks, the getFileStatus calls; nRequests, the requests sent; nTimers, the
\* setTimeout calls; notifications, the Utils.Notification calls; nRefresh, the
\* refreshFileList calls.
NoJob == [pc |-> "none", timer |-> 0, i |-> 0, returned |-> << >>, nChecks |-> 0,
          nRequests |-> 0, nTimers |-> 0, notifications |-> << >>, nRefresh |-> 0]

\* A completed branch without its return: it falls through to the timer of
\* the processing branch (the mutant of checkStatus).
FileManager_checkStatus_fallthrough(j, r) ==
    LET h == [j EXCEPT !.returned = Append(@, IF r.success THEN r.process_status
                                              ELSE "unsuccessful")]
    IN  IF r.success /\ r.process_status = "completed"
        THEN [h EXCEPT !.pc = "timer", !.timer = pollInterval, !.nTimers = @ + 1,
                       !.notifications = Append(@, "success"), !.nRefresh = @ + 1]
        ELSE IF r.success /\ r.process_status = "failed"
        THEN [h EXCEPT !.pc = "stopped", !.notifications = Append(@, "error"),
                       !.nRefresh = @ + 1]
        ELSE IF r.success /\ r.process_status = "processing"
        THEN [h EXCEPT !.pc = "timer", !.timer = pollInterval, !.nTimers = @ + 1]
        ELSE [h EXCEPT !.pc = "dropped"]

\* checkStatus after the await, on response r: the job after it.
FileManager_checkStatus(j, r) ==
    LET h == [j EXCEPT !.returned = Append(@, IF r.success THEN r.process_status
                                              ELSE "unsuccessful")]
    IN  IF r.success /\ r.process_status = "completed"
        THEN [h EXCEPT !.pc = "stopped", !.notifications = Append(@, "success"),
                       !.nRefresh = @ + 1]
        ELSE IF r.success /\ r.process_status = "failed"
        THEN [h EXCEPT !.pc = "stopped", !.notifications = Append(@, "error"),
                       !.nRefresh = @ + 1]
        ELSE IF r.success /\ r.process_status = "processing"
        THEN [h EXCEPT !.pc = "timer", !.timer = pollInterval, !.nTimers = @ + 1]
        ELSE [h EXCEPT !.pc = "dropped"]

\* A catch block that reports the job as failed (the mutant of the catch block).
FileManager_checkStatus_catch_failed(j) ==
    [j EXCEPT !.pc = "stopped", !.notifications = Append(@, "error"), !.nRefresh = @ + 1]

\* The catch block of checkStatus: console.error and return true.
FileManager_checkStatus_catch(j) == [j EXCEPT !.pc = "stopped"]

\* monitorFileProcessing(fileId): setTimeout(checkStatus, 2000).
MonitorFileProcessing(f) ==
    /\ ~destroyed
    /\ jobs[f].pc = "none"
    /\ jobs' = [jobs EXCEPT ![f].pc = "timer", ![f].timer = initialDelay,
                            ![f].nTimers = @ + 1]
    /\ UNCHANGED <<autoRefreshInterval, destroyed, refreshVars>>
    /\ UNCHANGED <<cacheVars, regVars, retryVars, streamVars, chatVars, uploadVars, requestVars, dbVars, modalVars>>

\* The timer fires: checkStatus calls API.FileAPI.getFileStatus, which is
\* retrier.execute over FileAPI.getFileStatus; i = 0 and the first request.
TimerFires(f) ==
    /\ jobs[f].pc = "timer"
    /\ jobs' = [jobs EXCEPT ![f].pc = "checking", ![f].timer = 0, ![f].i = 0,
                            ![f].nChecks = @ + 1, ![f].nRequests = @ + 1]
    /\ UNCHANGED <<autoRefreshInterval, destroyed, refreshVars>>
    /\ UNCHANGED <<cacheVars, regVars, retryVars, streamVars, chatVars, uploadVars, requestVars, dbVars, modalVars>>

\* The request fulfils with r and checkStatus resumes.
StatusReturns(f, r) ==
    /\ jobs[f].pc = "checking"
    /\ Len(jobs[f].returned) < MaxChecks
    /\ jobs' = [jobs EXCEPT ![f] = FileManager_checkStatus(jobs[f], r)]
    /\ UNCHANGED <<autoRefreshInterval, destroyed, refreshVars>>
    /\ UNCHANGED <<cacheVars, regVars, retryVars, streamVars, chatVars, uploadVars, requestVars, dbVars, modalVars>>

\* The request rejects with e: execute waits and tries again, or throws into
\* the catch block of checkStatus, which stops the monitor.
StatusRejects(f, e) ==
    /\ jobs[f].pc = "checking"
    /\ Len(jobs[f].returned) < MaxChecks
    /\ LET h == [jobs[f] EXCEPT !.returned = Append(@, "error")]
       IN jobs' = [jobs EXCEPT ![f] =
             IF jobs[f].i = maxRetries THEN FileManager_checkStatus_catch(h)
             ELSE IF RequestRetrier_shouldRetry(e) THEN [h EXCEPT !.pc = "backoff"]
             ELSE FileManager_checkStatus_catch(h)]
    /\ UNCHANGED <<autoRefreshInterval, destroyed, refreshVars>>
    /\ UNCHANGED <<cacheVars, regVars, retryVars, streamVars, chatVars, uploadVars, requestVars, dbVars, modalVars>>

\* The wait of execute is over: i++ and the next request.
BackoffElapsed(f) ==
    /\ jobs[f].pc = "backoff"
    /\ jobs' = [jobs EXCEPT ![f].pc = "checking", ![f].i = @ + 1,
                            ![f].nRequests = @ + 1]
    /\ UNCHANGED <<autoRefreshInterval, destroyed, refreshVars>>
    /\ UNCHANGED <<cacheVars, regVars, retryVars, streamVars, chatVars, uploadVars, requestVars, dbVars, modalVars>>

\* destroy(): stopAutoRefresh() and selectedFiles.clear(); the monitors after it.
FileManager_destroy(j) == j

\* startAutoRefresh(): this.autoRefreshInterval = setInterval(...), id being the
\* id setInterval returns.  The handle and the active timers after the call.
FileManager_startAutoRefresh(handle, timers, id) ==
    [handle |-> id, timers |-> timers \cup {id}]

\* stopAutoRefresh(): clearInterval of the handle, if there is one.
FileManager_stopAutoRefresh(handle, timers) ==
    IF handle # 0
    THEN [handle |-> 0, timers |-> timers \ {handle}]
    ELSE [handle |-> handle, timers |-> timers]

StartAutoRefresh ==
    LET r == FileManager_startAutoRefresh(autoRefreshInterval, intervals, nStarts + 1)
    IN /\ autoRefreshInterval' = r.handle
       /\ intervals' = r.timers
       /\ nStarts' = nStarts + 1

StopAutoRefresh ==
    LET r == FileManager_stopAutoRefresh(autoRefreshInterval, intervals)
    IN /\ autoRefreshInterval' = r.handle
       /\ intervals' = r.timers
       /\ UNCHANGED nStarts

\* MainApp.cleanup() calls destroy().
Destroy ==
    /\ ~destroyed
    /\ destroyed' = TRUE
    /\ StopAutoRefresh
    /\ UNCHANGED <<documentHidden, onLine>>
    /\ jobs' = FileManager_destroy(jobs)
    /\ UNCHANGED <<cacheVars, regVars, retryVars, streamVars, chatVars, uploadVars, requestVars, dbVars, modalVars>>

\* visibilitychange: MainApp.handleVisibilityChange().
HandleVisibilityChange ==
    /\ ~destroyed
    /\ documentHidden \/ nStarts < MaxStarts
    /\ documentHidden' = ~documentHidden
    /\ IF documentHidden' THEN StopAutoRefresh ELSE StartAutoRefresh
    /\ UNCHANGED <<jobs, destroyed, onLine>>
    /\ UNCHANGED <<cacheVars, regVars, retryVars, streamVars, chatVars, uploadVars, requestVars, dbVars, modalVars>>

\* online / offline: MainApp.handleNetworkStatusChange(navigator.onLine).
HandleNetworkStatusChange ==
    /\ ~destroyed
    /\ onLine \/ nStarts < MaxStarts
    /\ onLine' = ~onLine
    /\ IF onLine' THEN StartAutoRefresh ELSE StopAutoRefresh
    /\ UNCHANGED <<jobs, destroyed, documentHidden>>
    /\ UNCHANGED <<cacheVars, regVars, retryVars, streamVars, chatVars, uploadVars, requestVars, dbVars, modalVars>>

\* After the constructor: init() has called startAutoRefresh() once.
PollInit ==
    /\ jobs = [f \in Monitored |-> NoJob]
    /\ autoRefreshInterval = 1
    /\ intervals = {1}
    /\ documentHidden = FALSE
    /\ onLine = TRUE
    /\ nStarts = 1
    /\ destroyed = FALSE

PollNext ==
    \/ \E f \in Monitored : MonitorFileProcessing(f)
    \/ \E f \in Monitored : TimerFires(f)
    \/ \E f \in Monitored, r \in StatusResponses : StatusReturns(f, r)
    \/ \E f \in Monitored, e \in StatusErrors : StatusRejects(f, e)
    \/ \E f \in Monitored : BackoffElapsed(f)
    \/ Destroy

\* The file manager while the page is hidden and shown and the network goes
\* and comes back.
RefreshNext ==
    \/ Destroy
    \/ HandleVisibilityChange
    \/ HandleNetworkStatusChange

(***************************************************************************)
(* window.API.FileAPI.uploadFile: retrier.execute over FileAPI.uploadFile, *)
(* which is ApiClient.upload.  Every try makes a new XMLHttpRequest and    *)
(* registers the caller's onProgress on it.                                *)
(***************************************************************************)
\* What a try of upload can reject with.
UploadErrors == {e \in Errors : e.via = "upload"}

\* pc: where the call is; i: the retry index; total, loaded: e.total and the
\* e.loaded of the last progress event of the transmission under way.
\* History: progress, the values passed to onProgress; tries, the requests.
NoUpload == [pc |-> "idle", i |-> 0, total |-> 0, loaded |-> 0, progress |-> << >>, tries |-> 0]

\* (e.loaded / e.total) * 100, to the percent.
ApiClient_percentComplete(loaded, total) == (loaded * 100) \div total

\* uploadFile(file, onProgress): execute starts, upload sends the first request.
UploadFile(size) ==
    /\ up.pc = "idle"
    /\ up' = [NoUpload EXCEPT !.pc = "sending", !.total = size, !.tries = 1]
    /\ UNCHANGED <<cacheVars, regVars, retryVars, streamVars, chatVars, pollVars, requestVars, dbVars, modalVars>>

\* A progress event of xhr.upload: the bytes sent so far, never fewer than at
\* the event before it in this transmission.
UploadProgress(loaded, lengthComputable) ==
    /\ up.pc = "sending"
    /\ Len(up.progress) < MaxProgress
    /\ loaded >= up.loaded
    /\ loaded <= up.total
    /\ up' = [up EXCEPT !.loaded = loaded,
                        !.progress = IF lengthComputable
                                     THEN Append(@, ApiClient_percentComplete(loaded, up.total))
                                     ELSE @]
    /\ UNCHANGED <<cacheVars, regVars, retryVars, streamVars, chatVars, pollVars, requestVars, dbVars, modalVars>>

\* load with a 2xx status and a body that parses: the promise fulfils.
UploadFulfils ==
    /\ up.pc = "sending"
    /\ up' = [up EXCEPT !.pc = "returned"]
    /\ UNCHANGED <<cacheVars, regVars, retryVars, streamVars, chatVars, pollVars, requestVars, dbVars, modalVars>>

\* load with another status or a body that does not parse, error, or timeout:
\* the promise rejects with e, and the catch block of execute decides.
UploadRejects(e) ==
    /\ up.pc = "sending"
    /\ up' = [up EXCEPT !.pc = IF up.i = maxRetries THEN "thrown"
                               ELSE IF RequestRetrier_shouldRetry(e) THEN "waiting"
                               ELSE "thrown"]
    /\ UNCHANGED <<cacheVars, regVars, retryVars, streamVars, chatVars, pollVars, requestVars, dbVars, modalVars>>

\* The wait of execute is over: i++, and upload sends a new request.
UploadRetries ==
    /\ up.pc = "waiting"
    /\ up' = [up EXCEPT !.pc = "sending", !.i = @ + 1, !.loaded = 0, !.tries = @ + 1]
    /\ UNCHANGED <<cacheVars, regVars, retryVars, streamVars, chatVars, pollVars, requestVars, dbVars, modalVars>>

UploadInit == up = NoUpload

UploadNext ==
    \/ \E size \in 1..MaxBytes : UploadFile(size)
    \/ \E loaded \in 0..MaxBytes, lc \in BOOLEAN : UploadProgress(loaded, lc)
    \/ UploadFulfils
    \/ \E e \in UploadErrors : UploadRejects(e)
    \/ UploadRetries

(***************************************************************************)
(* ApiClient.request.  Time is counted in ticks from the dispatch; the     *)
(* timeout of a call (config.timeout: the default, or the caller's         *)
(* override) is a number of ticks.  A timer fires when it is due: time     *)
(* does not pass over a due timer.                                         *)
(***************************************************************************)
Timeouts == 1..MaxTimeout
NoResponse == -1
SyntaxError == LocalError("syntax", "request")

\* pc: where the call is.  timeout: config.timeout.  timer: the state of the
\* setTimeout of the call.  aborted: controller.signal.aborted.  status: of
\* the response.  error: what the call threw.  History: clock, the ticks
\* since dispatch; responseAt, the tick at which fetch fulfilled;
\* fetchFailed, whether fetch rejected on its own.
NoRequest == [pc |-> "idle", timeout |-> 0, timer |-> "none", aborted |-> FALSE,
              status |-> 0, error |-> NoError, clock |-> 0,
              responseAt |-> NoResponse, fetchFailed |-> FALSE]

\* A timer callback that leaves the fetch alone (the mutant of the callback).
ApiClient_onTimeout_idle(aborted) == aborted

\* () => controller.abort(): signal.aborted after it.
ApiClient_onTimeout(aborted) == TRUE

\* request(url, options): the timer is set and fetch is called.
Request(timeout) ==
    /\ rq.pc = "idle"
    /\ rq' = [NoRequest EXCEPT !.pc = "fetching", !.timeout = timeout, !.timer = "armed"]
    /\ UNCHANGED <<cacheVars, regVars, retryVars, streamVars, chatVars, pollVars, uploadVars, dbVars, modalVars>>

\* One tick passes.
RequestTick ==
    /\ rq.pc # "idle"
    /\ rq.clock < MaxClock
    /\ ~(rq.timer = "armed" /\ rq.clock >= rq.timeout)
    /\ rq' = [rq EXCEPT !.clock = @ + 1]
    /\ UNCHANGED <<cacheVars, regVars, retryVars, streamVars, chatVars, pollVars, uploadVars, dbVars, modalVars>>

\* The timer fires: controller.abort().  A fetch that is pending rejects with
\* an AbortError, which the catch block turns into the timeout error.
TimeoutFires ==
    /\ rq.timer = "armed"
    /\ rq.clock >= rq.timeout
    /\ LET a == ApiClient_onTimeout(rq.aborted)
       IN rq' = [rq EXCEPT !.timer = "fired",
                           !.aborted = a,
                           !.pc = IF a /\ rq.pc = "fetching" THEN "thrown" ELSE @,
                           !.error = IF a /\ rq.pc = "fetching"
                                     THEN LocalError("timeout", "request") ELSE @]
    /\ UNCHANGED <<cacheVars, regVars, retryVars, streamVars, chatVars, pollVars, uploadVars, dbVars, modalVars>>

\* fetch fulfils with the response (its status line and headers):
\* clearTimeout(timeoutId), then the body is read.
ResponseArrives(status) ==
    /\ rq.pc = "fetching"
    /\ rq' = [rq EXCEPT !.timer = "cleared", !.status = status, !.responseAt = rq.clock,
                        !.pc = IF status = 200 THEN "body" ELSE "errorBody"]
    /\ UNCHANGED <<cacheVars, regVars, retryVars, streamVars, chatVars, pollVars, uploadVars, dbVars, modalVars>>

\* fetch rejects on its own (no connection): the catch block rethrows, and
\* the timer stays set.
FetchRejects(text) ==
    /\ rq.pc = "fetching"
    /\ rq' = [rq EXCEPT !.pc = "thrown", !.error = FetchError(text), !.fetchFailed = TRUE]
    /\ UNCHANGED <<cacheVars, regVars, retryVars, streamVars, chatVars, pollVars, uploadVars, dbVars, modalVars>>

\* The body has arrived: response.json() / response.text() settles.  An ok
\* response returns, or throws when its JSON does not parse; another
\* response throws the error made of errorData.message or of the status.
BodyArrives(message, parses) ==
    /\ rq.pc \in {"body", "errorBody"}
    /\ rq' = [rq EXCEPT
          !.pc = IF rq.pc = "body" /\ parses THEN "returned" ELSE "thrown",
          !.error = IF rq.pc = "errorBody"
                    THEN HttpError("request", rq.status, IF parses THEN message ELSE NoMessage)
                    ELSE IF parses THEN @ ELSE SyntaxError]
    /\ UNCHANGED <<cacheVars, regVars, retryVars, streamVars, chatVars, pollVars, uploadVars, dbVars, modalVars>>

RequestInit == rq = NoRequest

RequestNext ==
    \/ \E t \in Timeouts : Request(t)
    \/ RequestTick
    \/ TimeoutFires
    \/ \E st \in {200} \cup Statuses : ResponseArrives(st)
    \/ \E t \in FetchMessages : FetchRejects(t)
    \/ \E b \in BodyMessages, ok \in BOOLEAN : BodyArrives(b, ok)


(***************************************************************************)
(* db.sql: the files row of one file and the trigger                       *)
(* after_document_contents_insert.  A row of document_contents is the pair *)
(* of its page_number and of the total_pages of its content_metadata; a    *)
(* total_pages of 0 stands for every value that fails total_pages > 0      *)
(* (NULL, absent, 0).                                                      *)
(***************************************************************************)
PageNumbers == 1..MaxPages

TotalPages == 0..MaxPages

ProcessStatuses == {"pending", "processing", "completed", "failed"}

\* The row INSERT INTO files creates: the column defaults.
NewFileRow ==
    [process_status |-> "pending", process_progress |-> 0, content_extracted |-> FALSE]

\* ROUND(n / d) of MySQL for n >= 0, d > 0: half away from zero.
ROUND(n, d) == (2 * n + d) \div (2 * d)

\* The body of the trigger: total_pages is the value the SELECT ... LIMIT 1
\* returned, rows are the rows of the file after the insert.
after_document_contents_insert(row, rows, total_pages) ==
    LET processed_pages == Cardinality({r.page_number : r \in rows})
        progress_percent == IF total_pages > 0
                            THEN ROUND(processed_pages * 100, total_pages)
                            ELSE 0
    IN  [row EXCEPT
           !.process_progress = progress_percent,
           !.process_status = IF progress_percent >= 100 THEN "completed"
                              ELSE IF progress_percent > 0 THEN "processing"
                              ELSE @,
           !.content_extracted = TRUE]

\* INSERT INTO document_contents for the file, and the trigger that follows it.
\* SELECT ... LIMIT 1 has no ORDER BY: it returns the total_pages of any row of
\* the file, the new one included.
InsertDocumentContents(page, total) ==
    /\ document_contents' = document_contents \cup {[page_number |-> page, total_pages |-> total]}
    /\ \E first \in document_contents' :
          fileRow' = after_document_contents_insert(fileRow, document_contents', first.total_pages)
    /\ UNCHANGED <<cacheVars, regVars, retryVars, streamVars, chatVars, pollVars, uploadVars,
                   requestVars, modalVars>>

\* The processing backend writes process_status: it starts a pending file and
\* ends a processing one as completed or as failed.
UpdateProcessStatus(st) ==
    /\ \/ fileRow.process_status = "pending" /\ st = "processing"
       \/ fileRow.process_status = "processing" /\ st \in {"completed", "failed"}
    /\ fileRow' = [fileRow EXCEPT !.process_status = st]
    /\ UNCHANGED document_contents
    /\ UNCHANGED <<cacheVars, regVars, retryVars, streamVars, chatVars, pollVars, uploadVars,
                   requestVars, modalVars>>

DbInit ==
    /\ fileRow = NewFileRow
    /\ document_contents = {}

DbNext ==
    \/ \E page \in PageNumbers, total \in TotalPages : InsertDocumentContents(page, total)
    \/ \E st \in ProcessStatuses : UpdateProcessStatus(st)


(***************************************************************************)
(* FileManager.showDeleteConfirmModal and Utils.Modal.  An opening of the  *)
(* modal attaches one handleConfirm and one handleCancel, closures of its   *)
(* fileId; cleanup() of the opening removes both.                          *)
(***************************************************************************)
NoClick == [calls |-> 0, files |-> {}, target |-> 0]

\* showDeleteConfirmModal(fileId, ...), from the delete button of a file that
\* the open modal does not cover.
ShowDeleteConfirmModal(f) ==
    /\ ~modalActive
    /\ nOpens < MaxOpens
    /\ modalActive' = TRUE
    /\ listeners' = listeners \cup {[n |-> nOpens + 1, fileId |-> f]}
    /\ nOpens' = nOpens + 1
    /\ UNCHANGED lastClick
    /\ UNCHANGED <<cacheVars, regVars, retryVars, streamVars, chatVars, pollVars, uploadVars,
                   requestVars, dbVars>>

\* The fileId of the opening made last.
LastOpened == (CHOOSE l \in listeners : l.n = nOpens).fileId

\* A click on #delete-confirm-btn: every handleConfirm that is attached hides
\* the modal, calls performDeleteFile(fileId) and then cleanup().
ClickConfirm ==
    /\ modalActive
    /\ modalActive' = FALSE
    /\ lastClick' = [calls |-> Cardinality(listeners),
                     files |-> {l.fileId : l \in listeners},
                     target |-> LastOpened]
    /\ listeners' = {}
    /\ UNCHANGED nOpens
    /\ UNCHANGED <<cacheVars, regVars, retryVars, streamVars, chatVars, pollVars, uploadVars,
                   requestVars, dbVars>>

\* A click on #delete-cancel-btn: every handleCancel that is attached hides the
\* modal and calls cleanup().
ClickCancel ==
    /\ modalActive
    /\ modalActive' = FALSE
    /\ listeners' = {}
    /\ UNCHANGED <<lastClick, nOpens>>
    /\ UNCHANGED <<cacheVars, regVars, retryVars, streamVars, chatVars, pollVars, uploadVars,
                   requestVars, dbVars>>

\* Escape, a click on the backdrop or on .modal-close: Utils.Modal.hide.
ModalDismissed ==
    /\ modalActive
    /\ modalActive' = FALSE
    /\ UNCHANGED <<listeners, lastClick, nOpens>>
    /\ UNCHANGED <<cacheVars, regVars, retryVars, streamVars, chatVars, pollVars, uploadVars,
                   requestVars, dbVars>>

ModalInit ==
    /\ modalActive = FALSE
    /\ listeners = {}
    /\ lastClick = NoClick
    /\ nOpens = 0

ModalNext ==
    \/ \E f \in FileIds : ShowDeleteConfirmModal(f)
    \/ ClickConfirm
    \/ ClickCancel
    \/ ModalDismissed

Init ==
    /\ CacheInit /\ RegInit /\ RetryInit /\ StreamInit /\ ChatInit /\ PollInit
    /\ UploadInit /\ RequestInit /\ DbInit /\ ModalInit

SpecCache == Init /\ [][CacheNext]_vars

SpecFacade == Init /\ [][FacadeNext]_vars

SpecWithCache == Init /\ [][WithCacheNext]_vars

SpecRegistry == Init /\ [][RegNext]_vars

SpecInterceptor == Init /\ [][InterceptorNext]_vars

SpecRetry == Init /\ [][RetryNext]_vars

SpecStream == Init /\ [][StreamNext]_vars

SpecChat == Init /\ [][ChatNext]_vars

SpecChatRetry == Init /\ [][ChatRetryNext]_vars

SpecChatSessions == Init /\ [][ChatSessionsNext]_vars

\* The call of searchStream settles: the body of the response ends or the call
\* throws.
SpecChatFair ==
    SpecChat /\ \A v \in Invocations : WF_vars(StreamReturns(v) \/ StreamThrows(v))

SpecPoll == Init /\ [][PollNext]_vars

SpecRefresh == Init /\ [][RefreshNext]_vars

SpecUpload == Init /\ [][UploadNext]_vars

SpecRequest == Init /\ [][RequestNext]_vars

SpecDb == Init /\ [][DbNext]_vars

SpecModal == Init /\ [][ModalNext]_vars

(***************************************************************************)
(* C2: a get(k) of an entry stored at storedAt with ttl returns the stored *)
(* value iff it is called at now < storedAt + ttl; called at or after      *)
(* storedAt + ttl it returns absent and removes the entry.                 *)
(***************************************************************************)
C2_GetIffBeforeExpiry ==
    lastGet.found =>
        /\ lastGet.hit <=> (lastGet.at < lastGet.storedAt + lastGet.ttl)
        /\ (lastGet.at >= lastGet.storedAt + lastGet.ttl) => (~lastGet.hit /\ lastGet.evicted)

(***************************************************************************)
(* C9: after a delete of r through the facade has succeeded, no read is    *)
(* answered from a cache entry that was stored before the delete and       *)
(* contains r.                                                             *)
(***************************************************************************)
C9_NoStaleReadAfterDelete == lastRead.fromCache => ~lastRead.stale

(***************************************************************************)
(* C1 as stated: when a call for k is made through the wrapper while an    *)
(* earlier call for k is unsettled, both calls share one promise (one      *)
(* network call) and observe the same outcome.                             *)
(***************************************************************************)
SameCall(c, d) ==
    /\ callers[c].promise = callers[d].promise
    /\ (callers[c].pc = "settled" /\ callers[d].pc = "settled")
          => callers[c].outcome = callers[d].outcome

C3_Retry503ThreeTimes ==
    \A x \in ExecCalls :
        (exec[x].pc = "thrown" /\ exec[x].only503)
        => (exec[x].tries = 4 /\ exec[x].waits = <<1000, 2000, 4000>>)

(***************************************************************************)
(* C10: shouldRetry(error) is true iff the error is a transport failure    *)
(* (no connection, or the timeout of request / upload) or a server error   *)
(* of status 500, 502, 503 or 504.                                         *)
(***************************************************************************)
Retryable(e) ==
    \/ e.kind \in {"fetch", "timeout", "network"}
    \/ (e.kind = "http" /\ e.status \in {500, 502, 503, 504})

C10_ShouldRetryIffTransportOr5xx ==
    \A x \in ExecCalls :
        /\ exec[x].pc = "waiting" => Retryable(exec[x].lastError)
        /\ (exec[x].pc = "thrown" /\ exec[x].i < maxRetries) => ~Retryable(exec[x].lastError)

(***************************************************************************)
(* C4: however the text is cut into chunks, when the stream has ended the  *)
(* events passed to onMessage are exactly the events of the complete data  *)
(* lines of the whole text, in order.                                      *)
(***************************************************************************)
CompleteLines(text) == SubSeq(Split(text), 1, Len(Split(text)) - 1)

C4_EventsOfCompleteLines ==
    streamPc = "closed" => dispatched = DispatchLines(CompleteLines(received))

(***************************************************************************)
(* C5: in one stream, the value passed to updateStreamingMessage after     *)
(* each content event is the concatenation, in arrival order, of the       *)
(* content fragments received so far, and the transcript finalized on done *)
(* is that concatenation: start, content A, content B, done finalizes AB.  *)
(***************************************************************************)
RECURSIVE Flatten(_)
Flatten(ss) == IF ss = << >> THEN << >> ELSE Head(ss) \o Flatten(Tail(ss))

C5_TranscriptIsConcatenation ==
    \A v \in Invocations :
        /\ sends[v].frags # << >> => sends[v].shown = Flatten(sends[v].frags)
        /\ sends[v].finalized # NotFinalized =>
               sends[v].finalized = Flatten(SubSeq(sends[v].frags, 1, sends[v].finalFrags))

C5_Witness ==
    \E v \in Invocations :
        /\ sends[v].started
        /\ sends[v].frags = << <<"A">>, <<"B">> >>
        /\ sends[v].finalFrags = 2
        /\ sends[v].finalized = <<"A", "B">>
        /\ \E i \in 1..Len(dom) : dom[i] = Element("assistant", "", <<"A", "B">>, NoSources)

(***************************************************************************)
(* C6: a sendMessage with a non-empty query made while isStreaming is true *)
(* starts no searchStream, adds no user message and leaves the running     *)
(* stream's transcript, sources and state as they are.                     *)
(***************************************************************************)
C6_BusyRejected ==
    [][lastAct' = "send-while-streaming"
         => UNCHANGED <<currentSessionId, isStreaming, sends, dom, chatStatus, nSessions, nSends,
                        nEvents>>]_vars

C6_Witness ==
    /\ lastAct = "send-while-streaming"
    /\ \E v \in Invocations : sends[v].pc = "streaming" /\ sends[v].frags # << >>

(***************************************************************************)
(* C7: at most one searchStream call of the ChatManager is in progress at  *)
(* any instant.                                                            *)
(***************************************************************************)
C7_OneStreamAtATime ==
    Cardinality({v \in Invocations : sends[v].pc = "streaming"}) <= 1

(***************************************************************************)
(* C8.  When the requests of a monitor have come back with `processing`    *)
(* n times and then `completed`, the monitor has made n + 1 status checks  *)
(* (n + 1 getFileStatus calls, n + 1 requests), has issued the `completed` *)
(* notification once and nothing else, and has no timer pending; and a     *)
(* monitor that has stopped never moves again: no check, no timer.         *)
(***************************************************************************)
ProcessingThenCompleted(n) == [k \in 1..(n + 1) |-> IF k = n + 1 THEN "completed"
                                                    ELSE "processing"]

C8_Settled(j, n) ==
    /\ j.nChecks = n + 1
    /\ j.nRequests = n + 1
    /\ j.nTimers = n + 1
    /\ j.notifications = <<"success">>
    /\ j.pc = "stopped"
    /\ j.timer = 0

C8_ChecksThenStops ==
    /\ [](\A f \in Monitored : \A n \in 0..(MaxChecks - 1) :
             jobs[f].returned = ProcessingThenCompleted(n) => C8_Settled(jobs[f], n))
    /\ [][\A f \in Monitored : jobs[f].pc = "stopped" => jobs'[f] = jobs[f]]_vars

C8_Witness ==
    \E f \in Monitored :
       /\ jobs[f].returned = ProcessingThenCompleted(3)
       /\ jobs[f].nChecks = 4
       /\ jobs[f].notifications = <<"success">>

(***************************************************************************)
(* C11.  One call of execute invokes the request function at most          *)
(* maxRetries + 1 = 4 times, and when it throws, what it throws is the     *)
(* error of its last try, as that try threw it.                            *)
(***************************************************************************)
C11_AtMostFourTriesLastErrorUnchanged ==
    \A x \in ExecCalls :
        /\ exec[x].tries <= maxRetries + 1
        /\ exec[x].pc = "thrown" => exec[x].thrown = exec[x].lastTry

C11_Witness ==
    \E x \in ExecCalls :
        /\ exec[x].pc = "thrown"
        /\ exec[x].tries = maxRetries + 1
        /\ exec[x].thrown = exec[x].lastTry
        /\ exec[x].thrown # NoError

(***************************************************************************)
(* C12.  Of the events dispatched to onMessage for one stream, a `done` or *)
(* `error` is the last one, and no progress, content or sources event      *)
(* comes before a `start`.                                                 *)
(***************************************************************************)
C12_TerminalLastStartFirst ==
    \A i \in 1..Len(dispatched) :
        /\ dispatched[i].type \in {"done", "error"} => i = Len(dispatched)
        /\ dispatched[i].type \in {"progress", "content", "sources"}
              => \E j \in 1..(i - 1) : dispatched[j].type = "start"

(***************************************************************************)
(* C13.  When the stream of an invocation ends before a `done` or `error`  *)
(* event was dispatched to it, sendMessage ends it as an error: the error  *)
(* message is put on the page and that invocation's typing indicator is    *)
(* taken off it.                                                           *)
(***************************************************************************)
TypingIndicators(d) == Cardinality({i \in 1..Len(d) : d[i].id = "typing-indicator"})

C13_ClosedWithoutTerminalIsError ==
    [][\A v \in Invocations :
          (sends[v].pc = "streaming" /\ sends'[v].pc # "streaming" /\ ~sends[v].terminal)
             => /\ Len(dom') > 0
                /\ dom'[Len(dom')].cls = "error"
                /\ TypingIndicators(dom') < TypingIndicators(dom)]_vars

(***************************************************************************)
(* C14.  The values one call of the exported uploadFile passes to          *)
(* onProgress lie in 0..100 and never decrease.                            *)
(***************************************************************************)
C14_ProgressMonotone ==
    /\ \A k \in 1..Len(up.progress) : up.progress[k] \in 0..100
    /\ \A k \in 1..(Len(up.progress) - 1) : up.progress[k] <= up.progress[k + 1]

(***************************************************************************)
(* C15.  When a registered call settles, its entry is gone before any      *)
(* caller waiting for it resumes: cancelDuplicate(k) in a continuation     *)
(* returns null, and the registry never hands out a settled promise to a   *)
(* later call (a settled promise is in the registry only while its finally *)
(* callback is the next microtask).                                        *)
(***************************************************************************)
C15_EntryRemovedBeforeDelivery ==
    /\ \A c \in Callers : callers[c].pc = "settled" => callers[c].seen = NoPromise
    /\ \A k \in DOMAIN requestQueue :
          ~Pending(requestQueue[k])
             => /\ microQ # << >>
                /\ Head(microQ).kind = "finally"
                /\ Head(microQ).key = k

C15_Witness ==
    \E c \in Callers : \E d \in joined[c] :
        /\ callers[c].pc = "settled"
        /\ callers[d].pc = "settled"
        /\ callers[c].promise = callers[d].promise
        /\ callers[c].seen = NoPromise
        /\ callers[d].seen = NoPromise
        /\ callers[c].key \notin DOMAIN requestQueue

(***************************************************************************)
(* C16.  A request that has no response when its timeout has elapsed (and  *)
(* whose fetch did not fail on its own) has been aborted through the       *)
(* controller and has thrown the timeout error; a request whose response   *)
(* arrived is never aborted by the timer and never throws that error.      *)
(***************************************************************************)
C16_TimeoutAbortsOnlyWithoutResponse ==
    /\ (rq.pc # "idle" /\ rq.clock > rq.timeout /\ rq.responseAt = NoResponse
          /\ ~rq.fetchFailed)
       => (rq.aborted /\ rq.pc = "thrown" /\ ErrorMessage(rq.error) = MsgRequestTimeout)
    /\ rq.responseAt # NoResponse
       => (~rq.aborted /\ rq.error # LocalError("timeout", "request"))

C16_Witness ==
    /\ rq.pc = "thrown"
    /\ rq.clock > rq.timeout
    /\ rq.responseAt = NoResponse
    /\ rq.aborted
    /\ ErrorMessage(rq.error) = MsgRequestTimeout

(***************************************************************************)
(* C17.  A request that has not settled is not older than its timeout.     *)
(***************************************************************************)
C17_SettlesWithinTimeout ==
    rq.pc \in {"fetching", "body", "errorBody"} => rq.clock <= rq.timeout

(***************************************************************************)
(* C18.  When a status check has failed (its last request threw and the    *)
(* retry wrapper has given up), the monitor has stopped with no timer      *)
(* pending, the `failed` notification has not been issued, the file list   *)
(* has not been reloaded on account of it, and the monitor never moves     *)
(* again.                                                                  *)
(***************************************************************************)
CheckFailed(j) ==
    /\ j.returned # << >>
    /\ j.returned[Len(j.returned)] = "error"
    /\ j.pc \notin {"checking", "backoff"}

C18_FailedCheckStopsSoftly ==
    /\ [](\A f \in Monitored :
             CheckFailed(jobs[f])
                => /\ jobs[f].pc = "stopped"
                   /\ jobs[f].timer = 0
                   /\ \A k \in 1..Len(jobs[f].notifications) :
                         jobs[f].notifications[k] # "error"
                   /\ jobs[f].nRefresh = 0)
    /\ [][\A f \in Monitored : CheckFailed(jobs[f]) => jobs'[f] = jobs[f]]_vars

C18_Witness ==
    \E f \in Monitored :
        /\ CheckFailed(jobs[f])
        /\ jobs[f].i = maxRetries
        /\ jobs[f].nRequests = maxRetries + 1
        /\ jobs[f].pc = "stopped"

(***************************************************************************)
(* C19.  After destroy() no timer of a monitor is pending and no status    *)
(* check is made: no getFileStatus call, no request.                       *)
(***************************************************************************)
C19_NoPollingAfterDestroy ==
    /\ [](destroyed => \A f \in Monitored : jobs[f].timer = 0)
    /\ [][destroyed => \A f \in Monitored :
                          /\ jobs'[f].nChecks = jobs[f].nChecks
                          /\ jobs'[f].nRequests = jobs[f].nRequests]_vars

(***************************************************************************)
(* C20.  A monitor whose last status check succeeded and reported a state  *)
(* that is not terminal, `pending` or `processing`, has its next check     *)
(* scheduled.                                                              *)
(***************************************************************************)
C20_NonTerminalReschedules ==
    \A f \in Monitored :
        (/\ jobs[f].returned # << >>
         /\ jobs[f].returned[Len(jobs[f].returned)] \in {"pending", "processing"}
         /\ jobs[f].pc \notin {"checking", "backoff"})
        => (jobs[f].pc = "timer" /\ jobs[f].timer = pollInterval)

(***************************************************************************)
(* C21.  A data line whose JSON does not parse, and a line that is not a   *)
(* data line, are passed over and nothing else: as long as every chunk     *)
(* ends with a newline, the events passed to onMessage are exactly the     *)
(* events the backend wrote on the lines read so far, in order, and the    *)
(* read loop goes on.  (Lines cut by a chunk boundary are the matter of    *)
(* C4.)                                                                    *)
(***************************************************************************)
RECURSIVE EventsWritten(_)
EventsWritten(lines) ==
    IF lines = << >> THEN << >>
    ELSE (IF \E ev \in StreamEvents : Head(lines) = DataLine(ev)
          THEN <<CHOOSE ev \in StreamEvents : Head(lines) = DataLine(ev)>>
          ELSE << >>) \o EventsWritten(Tail(lines))

MalformedLine == DataPrefix \o <<"{", "c">>

C21_MalformedLinesSkipped ==
    aligned => dispatched = EventsWritten(CompleteLines(received))

C21_Witness ==
    /\ aligned
    /\ Len(CompleteLines(received)) = 2
    /\ CompleteLines(received)[1] = MalformedLine
    /\ dispatched = <<Event("content", <<"A">>)>>

(***************************************************************************)
(* C22.  Once a stream has delivered `error`, no event of that stream puts *)
(* a finalized answer on the page; the `error` event puts its message on   *)
(* the page; and no step changes or removes an answer that is finalized.   *)
(***************************************************************************)
IsFinalAnswer(e) == e.cls = "assistant" /\ e.id = ""
FinalAnswers(d) == SelectSeq(d, IsFinalAnswer)

C22_ErrorNeverFinalizes ==
    [][/\ \A v \in Invocations :
             (sends[v].errored /\ sends'[v].pc = "streaming" /\ sends'[v] # sends[v])
                => FinalAnswers(dom') = FinalAnswers(dom)
       /\ \A v \in Invocations :
             (~sends[v].errored /\ sends'[v].errored)
                => (Len(dom') > 0 /\ dom'[Len(dom')].cls = "error")
       /\ Len(FinalAnswers(dom')) >= Len(FinalAnswers(dom))
       /\ SubSeq(FinalAnswers(dom'), 1, Len(FinalAnswers(dom))) = FinalAnswers(dom)]_vars

(***************************************************************************)
(* C23.  The first content event after a start event shows its own         *)
(* fragment and nothing else: start has emptied the transcript.            *)
(***************************************************************************)
C23_StartEmptiesTranscript ==
    [][\A v \in Invocations :
          (sends[v].fresh /\ sends'[v].pc = "streaming"
             /\ Len(sends'[v].frags) = Len(sends[v].frags) + 1)
          => sends'[v].shown = sends'[v].frags[Len(sends'[v].frags)]]_vars

(***************************************************************************)
(* C24.  The first `done` of a stream that has a streaming message on the  *)
(* page turns it into the answer made of the concatenation of the content  *)
(* fragments and of the value of the last sources event, or of no sources  *)
(* when there was none; and a sources event leaves the transcript and the  *)
(* page as they are.                                                       *)
(***************************************************************************)
C24_DoneCombinesTranscriptAndLastSources ==
    [][\A v \in Invocations :
          /\ (/\ sends[v].pc = "streaming" /\ sends'[v].pc = "streaming"
              /\ sends[v].finalized = NotFinalized /\ sends'[v].finalized # NotFinalized
              /\ FirstWithId(dom, "streaming-message") # 0)
             => /\ FinalAnswers(dom') =
                      Append(FinalAnswers(dom),
                             Element("assistant", "", Flatten(sends[v].frags), sends[v].lastSources))
                /\ FirstWithId(dom', "streaming-message") = 0
          /\ (sends[v].pc = "streaming" /\ sends'[v].pc = "streaming"
                /\ sends'[v].lastSources # sends[v].lastSources)
             => /\ sends'[v].assistantMessage = sends[v].assistantMessage
                /\ sends'[v].shown = sends[v].shown
                /\ dom' = dom]_vars

C24_Witness ==
    \E v \in Invocations :
        /\ sends[v].firstSources = SomeSources
        /\ sends[v].lastSources = OtherSources
        /\ sends[v].frags = << <<"A">> >>
        /\ sends[v].finalized = <<"A">>
        /\ FinalAnswers(dom) = <<Element("assistant", "", <<"A">>, OtherSources)>>

(***************************************************************************)
(* C25.  From a delete(k), and from a clear() for every k, until the next  *)
(* set(k, ...), get(k) returns absent; and a delete(k) leaves the entry of *)
(* every other key as it was.                                              *)
(***************************************************************************)
SameEntry(c, d, k) ==
    /\ k \in DOMAIN c <=> k \in DOMAIN d
    /\ k \in DOMAIN c => c[k] = d[k]

C25_DeleteAndClearFrame ==
    /\ [](\A k \in removed : CacheManager_getResult(cache, k, now) = Null)
    /\ [][\A k \in Keys :
             (k \notin removed /\ removed' = removed \cup {k})
                => \A j \in Keys \ {k} : SameEntry(cache, cache', j)]_vars

C25_Witness ==
    /\ removed = {"k1"}
    /\ "k2" \in DOMAIN cache
    /\ lastGet.key = "k1"
    /\ ~lastGet.found
    /\ CacheManager_getResult(cache, "k2", now) # Null

(***************************************************************************)
(* C26.  Of one execute call at most one try is in flight; a try is in     *)
(* flight only while the call is in a try, and the try of turn i has begun *)
(* only after the i tries before it have settled and the wait after each   *)
(* of them has elapsed.  A call is never held up by another                *)
(* call: whatever the other calls do, a call in a try can settle and a     *)
(* call in a wait can go on.                                               *)
(***************************************************************************)
C26_TriesSequentialCallsIndependent ==
    \A x \in ExecCalls :
        /\ exec[x].inFlight \in {0, 1}
        /\ exec[x].inFlight = 1 <=> exec[x].pc = "trying"
        /\ exec[x].pc = "trying" => (exec[x].tries = exec[x].i + 1 /\ Len(exec[x].waits) = exec[x].i)
        /\ exec[x].pc = "waiting"
              => (exec[x].tries = exec[x].i + 1 /\ Len(exec[x].waits) = exec[x].i + 1)
        /\ exec[x].pc = "trying" => ENABLED TryFulfils(x)
        /\ exec[x].pc = "waiting" => ENABLED WaitElapsed(x)

C26_Witness ==
    \E x \in ExecCalls : \E y \in ExecCalls \ {x} :
        /\ exec[x].pc = "trying"
        /\ exec[x].tries = 3
        /\ exec[x].waits = <<1000, 2000>>
        /\ exec[y].pc = "waiting"
        /\ exec[y].tries = 1

(***************************************************************************)
(* C27.  An execute that has thrown on an error that shouldRetry refuses   *)
(* has made one try more than it had retryable failures, has made no wait  *)
(* after that error, and has thrown that error; an execute that has        *)
(* returned has returned the value of its last try; and a call that has    *)
(* thrown or returned makes no further try.                                *)
(***************************************************************************)
C27_NonRetryableEndsCall ==
    /\ [](\A x \in ExecCalls :
            /\ (exec[x].pc = "thrown" /\ ~RequestRetrier_shouldRetry(exec[x].lastTry))
                  => /\ exec[x].tries = exec[x].retryableFailures + 1
                     /\ Len(exec[x].waits) = exec[x].retryableFailures
                     /\ exec[x].thrown = exec[x].lastTry
            /\ exec[x].pc = "returned"
                  => (exec[x].value = exec[x].tryValue /\ exec[x].inFlight = 0))
    /\ [][\A x \in ExecCalls :
             (exec[x].pc \in {"thrown", "returned"} /\ exec'[x] # exec[x])
                => (exec'[x].tries = 1 /\ exec'[x].i = 0 /\ exec'[x].waits = << >>)]_vars

C27_Witness ==
    \E x \in ExecCalls :
        /\ exec[x].pc = "thrown"
        /\ ~RequestRetrier_shouldRetry(exec[x].lastTry)
        /\ exec[x].retryableFailures = 2
        /\ exec[x].tries = 3
        /\ exec[x].thrown = exec[x].lastTry

(***************************************************************************)
(* C28.  When requestFn rejects, withCache rejects and the cache is as it  *)
(* was: no entry is created or refreshed; and a withCache for a key that   *)
(* has no usable entry calls requestFn.                                    *)
(***************************************************************************)
InvokesRequestFn(r, k) ==
    \E ttl \in TTLs : WithCacheLookup(r, k, ttl) /\ readers'[r].pc = "await"

C28_RejectedRequestStoresNothing ==
    /\ [][\A r \in Readers :
             (readers[r].pc = "await" /\ readers'[r].pc = "idle"
                /\ lastRead'.outcome = "rejected")
             => cache' = cache]_vars
    /\ [](\A r \in Readers : \A k \in Keys :
             (readers[r].pc = "idle" /\ ~Truthy(CacheManager_getResult(cache, k, now)))
                => ENABLED InvokesRequestFn(r, k))

C28_Witness ==
    \E r \in Readers :
        /\ lastRead.outcome = "rejected"
        /\ lastRead.key \notin DOMAIN cache
        /\ readers[r].pc = "await"
        /\ readers[r].key = lastRead.key

(***************************************************************************)
(* C29.  process_status changes only along pending -> processing ->        *)
(* {completed, failed}: a file that is completed or failed keeps its       *)
(* status, whatever is inserted into document_contents afterwards.         *)
(***************************************************************************)
StatusRank(st) ==
    IF st = "pending" THEN 0 ELSE IF st = "processing" THEN 1 ELSE 2

C29_TerminalStatusStays ==
    [][/\ fileRow.process_status \in {"completed", "failed"}
             => fileRow'.process_status = fileRow.process_status
       /\ StatusRank(fileRow'.process_status) >= StatusRank(fileRow.process_status)]_vars

(***************************************************************************)
(* C30.  For a key that had no call in flight when cancelAll() ran: the    *)
(* promise registered last under the key, while it is pending, is what     *)
(* cancelDuplicate(key) returns; the settlement of an older promise of the *)
(* key does not remove it.                                                 *)
(***************************************************************************)
Registered(k) == {p \in DOMAIN promises : promises[p].key = k}

MostRecent(k) == CHOOSE p \in Registered(k) : \A q \in Registered(k) : q <= p

C30_NewestPendingRegistrationFound ==
    \A k \in Keys :
        (k \notin orphaned /\ Registered(k) # {} /\ Pending(MostRecent(k)))
        => RequestInterceptor_cancelDuplicate(requestQueue, k) = MostRecent(k)

(***************************************************************************)
(* C31.  withCache(key, ...) calls requestFn only when the cache holds no  *)
(* entry of key that has not expired, whatever the data of the entry is.   *)
(***************************************************************************)
LiveEntry(c, k, t) == k \in DOMAIN c /\ ~CacheManager_expired(c[k], t)

C31_NoRequestWhileEntryLives ==
    [][\A r \in Readers :
          (readers[r].pc = "idle" /\ readers'[r].pc = "await")
             => ~LiveEntry(cache, readers'[r].key, now)]_vars

C33_EventsStayInTheirSession ==
    [][(/\ nEvents' # nEvents
        /\ domSession # 0
        /\ \A v \in Invocations :
              sends[v].pc = "streaming" => sends[v].session # domSession)
          => dom' = dom]_vars

(***************************************************************************)
(* C34.  While no invocation of sendMessage is in its searchStream call,   *)
(* the page holds no element with the id streaming-message.                *)
(***************************************************************************)
C34_NoStreamingSlotLeft ==
    (\A v \in Invocations : sends[v].pc # "streaming")
        => FirstWithId(dom, "streaming-message") = 0

(***************************************************************************)
(* C35.  The transcript finalized for an invocation is the concatenation   *)
(* of the fragments of one response: those the current try delivered.      *)
(***************************************************************************)
C35_TranscriptOfOneResponse ==
    \A v \in Invocations :
        sends[v].finalized # NotFinalized =>
            sends[v].finalized =
                Flatten(SubSeq(sends[v].frags, sends[v].finalStart + 1, sends[v].finalFrags))

(***************************************************************************)
(* C36.  At most one auto-refresh interval timer is active, and none is    *)
(* when this.autoRefreshInterval is null: after stopAutoRefresh() and      *)
(* after destroy().                                                        *)
(***************************************************************************)
C36_AtMostOneRefreshTimer ==
    /\ Cardinality(intervals) <= 1
    /\ autoRefreshInterval = 0 => intervals = {}

(***************************************************************************)
(* C37.  A click on the confirm button calls performDeleteFile once, for   *)
(* the file the modal was opened for last; while the modal is open only    *)
(* the handlers of its last opening are attached.                          *)
(***************************************************************************)
C37_OneClickOneFile ==
    /\ lastClick # NoClick => (lastClick.calls = 1 /\ lastClick.files = {lastClick.target})
    /\ modalActive => \A l \in listeners : l.n = nOpens

=============================================================================
